---------------------------- MODULE Spec2Model ----------------------------
(***************************************************************************)
(* MiniGit: the versioned snapshot store (minigit.c), the document catalog *)
(* of the search engine (search_engine.c) and the autocomplete prefix tree *)
(* (autocomplete.c), driven by the command loop of cli.c.                  *)
(*                                                                         *)
(* C strings are modelled as sequences of one-character strings.  Linked   *)
(* lists (the staging list, the commit list) are sequences, head first.    *)
(* Float scores are kept in tenths (0.6f is 6).                            *)
(***************************************************************************)
EXTENDS Integers, Sequences, FiniteSets, TLC

VARIABLES
    repo,               \* minigit.c: Repository repo  (head, commit_count)
    index_head,         \* minigit.c: File *index_head (staging list)
    g_documents,        \* search_engine.c: g_documents[0 .. g_document_count-1]
    root,               \* autocomplete.c: g_autocomplete_ctx.root (the tree)
    total_suggestions,  \* autocomplete.c: g_autocomplete_ctx.total_suggestions
    disk,               \* the file system: resolved path -> content or NoFile
    workdir,            \* whether the directory .mgit_work exists
    out,                \* the status line (or the status) of the last command
    crashed,            \* the process died on an out-of-bounds write
    created,            \* history: the ids given to commits, in creation order
    suggestions,        \* autocomplete.c: suggestions[0 .. count-1] of the last call
    results,            \* search_engine.c: results[0 .. out_count-1] of the last call
    g_total_queries,    \* search_engine.c: g_total_queries
    qsort_ties,         \* what qsort of this build does with elements that compare equal
    answered            \* history: the first call answered on the catalog as it is now

vars == <<repo, index_head, g_documents, root, total_suggestions,
          disk, workdir, out, crashed, created, suggestions,
          results, g_total_queries, qsort_ties, answered>>

-----------------------------------------------------------------------------
(* Program constants *)

MAX_FILE_CONTENT == 50000
MAX_FILENAME == 200
MAX_FILES_PER_COMMIT == 50
MAX_DOCUMENTS == 100
MESSAGE_COPY == 255
SCORE_FILE_WORD == 6
SCORE_COMMIT_WORD == 7
SCORE_DEFAULT_TITLES == 6
SCORE_DEFAULT_OTHER == 5

-----------------------------------------------------------------------------
(* Characters and strings *)

Lower == {"a", "b", "c", "d", "m", "o", "i", "t", "x", "y", "w", "g", "r", "k"}
Upper == {"A", "B", "C", "T"}
Digit == {"0", "1", "2", "3", "4", "5", "6", "7", "8", "9"}

tolower(c) ==
    CASE c = "A" -> "a"
      [] c = "B" -> "b"
      [] c = "C" -> "c"
      [] c = "T" -> "t"
      [] OTHER -> c

isalnum(c) == c \in Lower \cup Upper \cup Digit

\* a node that never held a suggestion (suggestion == NULL); an empty text is
\* never stored, so the empty string stands for it
NULL == <<>>

\* strncpy / fread into a buffer of n bytes: the first n characters
Take(s, n) == IF Len(s) <= n THEN s ELSE SubSeq(s, 1, n)

RECURSIVE MapLower(_)
MapLower(s) == IF s = <<>> THEN <<>> ELSE <<tolower(Head(s))>> \o MapLower(Tail(s))

\* printf("%d") of a non-negative int
RECURSIVE Decimal(_)
DigitChar(d) ==
    CASE d = 0 -> "0" [] d = 1 -> "1" [] d = 2 -> "2" [] d = 3 -> "3" [] d = 4 -> "4"
      [] d = 5 -> "5" [] d = 6 -> "6" [] d = 7 -> "7" [] d = 8 -> "8" [] d = 9 -> "9"
Decimal(n) == IF n < 10 THEN <<DigitChar(n)>> ELSE Decimal(n \div 10) \o <<DigitChar(n % 10)>>


-----------------------------------------------------------------------------
(* The file system.  disk maps the resolved path of every file that exists  *)
(* to its text; relative names resolve against the working context Cwd.    *)

Cwd == <<"/", "w">>

WORKING_DIR == <<".", "m", "g", "i", "t", "_", "w", "o", "r", "k">>

Resolve(path) ==
    IF path # <<>> /\ Head(path) = "/" THEN path ELSE Cwd \o <<"/">> \o path

\* fopen(path, "r") succeeds
CanOpen(fs, path) == Resolve(path) \in DOMAIN fs

ReadFile(fs, path) == fs[Resolve(path)]

\* fopen(path, "w"); fprintf(fp, "%s", content); fclose(fp)
WriteFile(fs, path, content) ==
    [q \in DOMAIN fs \cup {Resolve(path)} |->
        IF q = Resolve(path) THEN content ELSE fs[q]]

\* snprintf(path, ..., "%s/%s", WORKING_DIR, name)
WorkPath(name) == WORKING_DIR \o <<"/">> \o name

HasSlash(s) == \E i \in 1..Len(s) : s[i] = "/"

\* the entries readdir(WORKING_DIR) returns that name a file
DirEntries(fs) ==
    LET dir == Resolve(WORKING_DIR) \o <<"/">>
    IN  {SubSeq(q, Len(dir) + 1, Len(q)) :
            q \in {r \in DOMAIN fs : /\ Len(r) > Len(dir)
                                     /\ SubSeq(r, 1, Len(dir)) = dir
                                     /\ ~HasSlash(SubSeq(r, Len(dir) + 1, Len(r)))}}

\* strrchr(filename, '/'): the part after the last slash
RECURSIVE Basename(_)
Basename(path) ==
    IF ~HasSlash(path) THEN path ELSE Basename(Tail(path))

-----------------------------------------------------------------------------
(* autocomplete.c: the prefix tree.  A node is named by the characters on   *)
(* the path from the root; root is a function from the paths of the nodes   *)
(* that exist to their fields.  last_used (a wall-clock stamp nothing reads *)
(* back) is left out.                                                       *)

EmptyNode == [is_end_of_word |-> FALSE, suggestion |-> NULL, score |-> 0, frequency |-> 0]

EmptyTrie == [p \in {<<>>} |-> EmptyNode]

AC_SOURCE_DOCUMENT_TITLES == "AC_SOURCE_DOCUMENT_TITLES"
AC_SOURCE_OTHER == "AC_SOURCE_OTHER"

\* the characters of the suggestion that select an edge: lowercased, and
\* every non-alphanumeric character skipped
RECURSIVE TrieKey(_)
TrieKey(s) ==
    IF s = <<>> THEN <<>>
    ELSE IF isalnum(tolower(Head(s))) THEN <<tolower(Head(s))>> \o TrieKey(Tail(s))
    ELSE TrieKey(Tail(s))

PrefixesOf(k) == {SubSeq(k, 1, n) : n \in 0..Len(k)}

\* insert_suggestion_into_trie that drops a text without a letter or digit
insert_suggestion_skip_empty(t, suggestion, score) ==
    LET key == TrieKey(suggestion)
        old == IF key \in DOMAIN t THEN t[key] ELSE EmptyNode
    IN  IF key = <<>> THEN t
        ELSE [p \in DOMAIN t \cup PrefixesOf(key) |->
                IF p = key
                THEN [is_end_of_word |-> TRUE, suggestion |-> suggestion,
                      score |-> score, frequency |-> old.frequency + 1]
                ELSE IF p \in DOMAIN t THEN t[p] ELSE EmptyNode]

\* insert_suggestion_into_trie that keeps the text and score a terminal
\* node already holds
insert_suggestion_first_wins(t, suggestion, score) ==
    LET key == TrieKey(suggestion)
        old == IF key \in DOMAIN t THEN t[key] ELSE EmptyNode
    IN  [p \in DOMAIN t \cup PrefixesOf(key) |->
            IF p = key
            THEN [is_end_of_word |-> TRUE,
                  suggestion |-> IF old.is_end_of_word THEN old.suggestion ELSE suggestion,
                  score |-> IF old.is_end_of_word THEN old.score ELSE score,
                  frequency |-> old.frequency + 1]
            ELSE IF p \in DOMAIN t THEN t[p] ELSE EmptyNode]

insert_suggestion_into_trie(t, suggestion, score) ==
    LET key == TrieKey(suggestion)
        old == IF key \in DOMAIN t THEN t[key] ELSE EmptyNode
    IN  [p \in DOMAIN t \cup PrefixesOf(key) |->
            IF p = key
            THEN [is_end_of_word |-> TRUE, suggestion |-> suggestion,
                  score |-> score, frequency |-> old.frequency + 1]
            ELSE IF p \in DOMAIN t THEN t[p] ELSE EmptyNode]

calculate_suggestion_score(suggestion, source) ==
    IF source = AC_SOURCE_DOCUMENT_TITLES THEN SCORE_DEFAULT_TITLES ELSE SCORE_DEFAULT_OTHER

\* add_autocomplete_suggestion that keeps a score of zero as given
add_autocomplete_suggestion_nonneg(ac, suggestion, score, source) ==
    IF Len(suggestion) = 0 THEN ac
    ELSE LET final_score == IF score >= 0 THEN score
                            ELSE calculate_suggestion_score(suggestion, source)
         IN  [root |-> insert_suggestion_into_trie(ac.root, suggestion, final_score),
              total_suggestions |-> ac.total_suggestions + 1]

\* the autocomplete context is the pair [root, total_suggestions]
add_autocomplete_suggestion(ac, suggestion, score, source) ==
    IF Len(suggestion) = 0 THEN ac
    ELSE LET final_score == IF score > 0 THEN score
                            ELSE calculate_suggestion_score(suggestion, source)
         IN  [root |-> insert_suggestion_into_trie(ac.root, suggestion, final_score),
              total_suggestions |-> ac.total_suggestions + 1]

\* what add_autocomplete_suggestion returns
add_autocomplete_suggestion_status(suggestion) == IF Len(suggestion) = 0 THEN -1 ELSE 0

\* the characters that label an edge of the tree, by ascending character
\* code: the order in which the loop over children[0 .. 127] meets them
CharOrder ==
    <<"0", "1", "2", "3", "4", "5", "6", "7", "8", "9",
      "a", "b", "c", "d", "g", "i", "k", "m", "o", "r", "t", "w", "x", "y">>

\* the walk from the root along the query: <<TRUE, node>> when every edge
\* exists, <<FALSE, ...>> at the first character without an edge
RECURSIVE WalkPrefix(_, _, _)
WalkPrefix(t, node, rest) ==
    IF rest = <<>> THEN <<TRUE, node>>
    ELSE IF Append(node, Head(rest)) \notin DOMAIN t THEN <<FALSE, node>>
    ELSE WalkPrefix(t, Append(node, Head(rest)), Tail(rest))

\* pre-order: the node, then its children by ascending code, while fewer
\* than max_suggestions entries are found
RECURSIVE collect_suggestions_from_trie(_, _, _, _)
RECURSIVE CollectChildren(_, _, _, _, _)
collect_suggestions_from_trie(t, node, found, max_suggestions) ==
    IF Len(found) >= max_suggestions THEN found
    ELSE LET here == IF t[node].is_end_of_word /\ t[node].suggestion # NULL
                     THEN Append(found, [suggestion |-> t[node].suggestion,
                                         score |-> t[node].score,
                                         frequency |-> t[node].frequency])
                     ELSE found
         IN  CollectChildren(t, node, 1, here, max_suggestions)

CollectChildren(t, node, i, found, max_suggestions) ==
    IF i > Len(CharOrder) \/ Len(found) >= max_suggestions THEN found
    ELSE CollectChildren(t, node, i + 1,
             IF Append(node, CharOrder[i]) \in DOMAIN t
             THEN collect_suggestions_from_trie(t, Append(node, CharOrder[i]), found,
                                                max_suggestions)
             ELSE found,
             max_suggestions)

\* compare_suggestions(a, b) <= 0: a may stand before b
compare_suggestions(a, b) == IF a.score > b.score THEN -1 ELSE IF a.score < b.score THEN 1 ELSE 0

\* qsort(found, count, ..., compare_suggestions): the arrangements of the
\* entries that the comparison allows (entries that compare equal may end in
\* either order)
SortedBy(found) ==
    LET n == Len(found)
        perms == {p \in [1..n -> 1..n] : \A i, j \in 1..n : i # j => p[i] # p[j]}
    IN  {[i \in 1..n |-> found[p[i]]] :
            p \in {q \in perms :
                      \A i, j \in 1..n :
                         i < j => compare_suggestions(found[q[i]], found[q[j]]) <= 0}}

\* get_autocomplete_suggestions with the collected entries left unsorted
get_autocomplete_suggestions_unsorted(t, query, max_suggestions) ==
    LET at == WalkPrefix(t, <<>>, MapLower(query))
    IN  IF ~at[1] THEN {<<>>}
        ELSE {collect_suggestions_from_trie(t, at[2], <<>>, max_suggestions)}

\* get_autocomplete_suggestions that normalizes the query as Insert
\* normalizes a text, skipping what is neither a letter nor a digit
get_autocomplete_suggestions_skipping(t, query, max_suggestions) ==
    LET walk == WalkPrefix(t, <<>>, TrieKey(query))
    IN  IF ~walk[1] THEN {<<>>}
        ELSE SortedBy(collect_suggestions_from_trie(t, walk[2], <<>>, max_suggestions))

\* get_autocomplete_suggestions that collects every terminal below the
\* prefix, sorts, and only then cuts to max_suggestions
get_autocomplete_suggestions_best(t, query, max_suggestions) ==
    LET at == WalkPrefix(t, <<>>, MapLower(query))
    IN  IF ~at[1] THEN {<<>>}
        ELSE {Take(sorted, max_suggestions) :
                 sorted \in SortedBy(collect_suggestions_from_trie(
                                        t, at[2], <<>>, Cardinality(DOMAIN t) + 1))}

\* the arrays get_autocomplete_suggestions may leave in suggestions[0 .. count-1]
get_autocomplete_suggestions(t, query, max_suggestions) ==
    LET at == WalkPrefix(t, <<>>, MapLower(query))
    IN  IF ~at[1] THEN {<<>>}
        ELSE SortedBy(collect_suggestions_from_trie(t, at[2], <<>>, max_suggestions))

-----------------------------------------------------------------------------
(* minigit.c: indexing of files and of commit messages *)

IsWordChar(c) == isalnum(c) \/ c = "_"

\* the words index_file_for_search hands to the autocomplete engine: the
\* maximal runs of [A-Za-z0-9_], lowercased, in file order
RECURSIVE FileWords(_, _)
FileWords(text, word) ==
    IF text = <<>> THEN (IF word = <<>> THEN <<>> ELSE <<word>>)
    ELSE IF IsWordChar(Head(text))
         THEN FileWords(Tail(text), Append(word, tolower(Head(text))))
         ELSE (IF word = <<>> THEN <<>> ELSE <<word>>) \o FileWords(Tail(text), <<>>)

RECURSIVE AddWords(_, _, _)
AddWords(ac, words, score) ==
    IF words = <<>> THEN ac
    ELSE AddWords(add_autocomplete_suggestion(ac, Head(words), score,
                                              AC_SOURCE_DOCUMENT_TITLES),
                  Tail(words), score)

\* fopen(filename, "r") fails: nothing is indexed
index_file_for_search(ac, fs, filename) ==
    IF ~CanOpen(fs, filename) THEN ac
    ELSE AddWords(ac, FileWords(ReadFile(fs, filename), <<>>), SCORE_FILE_WORD)

\* strtok(temp, " "): the non-empty runs between spaces
RECURSIVE Strtok(_, _)
Strtok(text, tok) ==
    IF text = <<>> THEN (IF tok = <<>> THEN <<>> ELSE <<tok>>)
    ELSE IF Head(text) = " "
         THEN (IF tok = <<>> THEN <<>> ELSE <<tok>>) \o Strtok(Tail(text), <<>>)
         ELSE Strtok(Tail(text), Append(tok, Head(text)))

\* clean[]: the alphanumeric characters of a token, lowercased
RECURSIVE Clean(_)
Clean(tok) ==
    IF tok = <<>> THEN <<>>
    ELSE IF isalnum(Head(tok)) THEN <<tolower(Head(tok))>> \o Clean(Tail(tok))
    ELSE Clean(Tail(tok))

RECURSIVE CleanAll(_)
CleanAll(toks) ==
    IF toks = <<>> THEN <<>>
    ELSE (IF Clean(Head(toks)) = <<>> THEN <<>> ELSE <<Clean(Head(toks))>>)
         \o CleanAll(Tail(toks))

MessageWords(msg) == CleanAll(Strtok(msg, <<>>))

CommitTitle(commit_id) == <<"C", "o", "m", "m", "i", "t", " ", "#">> \o Decimal(commit_id)

CommitDoc(msg, commit_id) ==
    [title |-> CommitTitle(commit_id), description |-> msg, url |-> "commit-msg",
     document_id |-> 0, relevance_score |-> 0]

-----------------------------------------------------------------------------
(* search_engine.c: the catalog *)

add_document_to_search_engine_virtual(docs, doc) ==
    IF Len(docs) >= MAX_DOCUMENTS THEN docs ELSE Append(docs, doc)

CouldNotRead(filename) ==
    <<"(", "C", "o", "u", "l", "d", " ", "n", "o", "t", " ", "r", "e", "a", "d", " ",
      "f", "i", "l", "e", " ", "'">> \o filename \o <<"'", ")">>

\* add_document_to_search_engine with the limit tested one entry late
add_document_off_by_one(docs, fs, filename) ==
    IF Len(docs) > MAX_DOCUMENTS THEN docs
    ELSE Append(docs,
           [title |-> filename, description |-> ReadFile(fs, filename),
            url |-> "local-file", document_id |-> Len(docs) + 1, relevance_score |-> 0])

add_document_to_search_engine(docs, fs, filename) ==
    IF Len(docs) >= MAX_DOCUMENTS THEN docs
    ELSE Append(docs,
           [title |-> filename,
            description |-> IF CanOpen(fs, filename) THEN ReadFile(fs, filename)
                            ELSE CouldNotRead(filename),
            url |-> "local-file",
            document_id |-> Len(docs) + 1, relevance_score |-> 0])

\* strstr / p += term_len: the occurrences of term in text that do not overlap
RECURSIVE count_occurrences(_, _)
count_occurrences(text, term) ==
    IF term = <<>> \/ Len(text) < Len(term) THEN 0
    ELSE IF SubSeq(text, 1, Len(term)) = term
         THEN 1 + count_occurrences(SubSeq(text, Len(term) + 1, Len(text)), term)
         ELSE count_occurrences(Tail(text), term)

MAX_QUERY_TOKENS == 16

\* tokens[]: the query lowercased and cut at the spaces
QueryTokens(query) == Take(Strtok(MapLower(query), <<>>), MAX_QUERY_TOKENS)

RECURSIVE SumHits(_, _, _)
SumHits(title_l, desc_l, tokens) ==
    IF tokens = <<>> THEN 0
    ELSE count_occurrences(title_l, Head(tokens)) * 3
         + count_occurrences(desc_l, Head(tokens))
         + SumHits(title_l, desc_l, Tail(tokens))

\* DocScore without the bonus for the tokens matched
DocScore_flat(doc, tokens) ==
    SumHits(MapLower(doc.title), MapLower(doc.description), tokens) * Len(tokens)

\* scores[i] of search_and_rank, times token_count (so that the bonus
\* 1 + words_matched / token_count stays an integer)
DocScore(doc, tokens) ==
    LET title_l == MapLower(doc.title)
        desc_l == MapLower(doc.description)
        token_count == Len(tokens)
        words_matched ==
            Cardinality({t \in 1..token_count :
                            \/ count_occurrences(title_l, tokens[t]) > 0
                            \/ count_occurrences(desc_l, tokens[t]) > 0})
        doc_score == SumHits(title_l, desc_l, tokens)
    IN  IF token_count > 1 THEN doc_score * (token_count + words_matched)
        ELSE doc_score * token_count

\* the raw score of every document of the catalog for a query
RawScores(docs, query) == [i \in 1..Len(docs) |-> DocScore(docs[i], QueryTokens(query))]

RECURSIVE GCD(_, _)
GCD(a, b) == IF b = 0 THEN a ELSE GCD(b, a % b)

Max(S) == CHOOSE x \in S : \A y \in S : y <= x

RECURSIVE SumScores(_, _)
SumScores(scores, n) == IF n = 0 THEN 0 ELSE scores[n] + SumScores(scores, n - 1)

\* max_raw as the total of the scores
max_raw_total(scores) == SumScores(scores, Len(scores))

\* max_raw: the largest score, 0 when there is none above 0
max_raw(scores) == Max({0} \cup {scores[i] : i \in 1..Len(scores)})

\* scores[i] / max_raw as the fraction <<numerator, denominator>> in lowest
\* terms; max_raw is raised to 0.001 when no score is positive, and every
\* score is then 0
Relevance(score, max) ==
    IF max = 0 THEN <<0, 1>>
    ELSE <<score \div GCD(score, max), max \div GCD(score, max)>>

Less(r1, r2) == r1[1] * r2[2] < r2[1] * r1[2]

cmp_results_descending(ra, rb) ==
    IF Less(ra.relevance_score, rb.relevance_score) THEN 1
    ELSE IF Less(rb.relevance_score, ra.relevance_score) THEN -1
    ELSE 0

\* qsort leaves the order of elements that compare equal unspecified: a
\* build keeps them in the order of the array or turns them round
QsortTies == {"kept", "reversed"}

qsort(local, ties) ==
    LET n == Len(local)
        Before(j, i) ==
            \/ cmp_results_descending(local[j], local[i]) < 0
            \/ /\ cmp_results_descending(local[j], local[i]) = 0
               /\ IF ties = "kept" THEN j < i ELSE j > i
        Pos(i) == 1 + Cardinality({j \in 1..n : Before(j, i)})
    IN  [k \in 1..n |-> local[CHOOSE i \in 1..n : Pos(i) = k]]

\* local[]: the copy of the catalog with the relevance of each document
Scored(docs, query) ==
    LET scores == RawScores(docs, query)
    IN  [i \in 1..Len(docs) |->
            [docs[i] EXCEPT !.relevance_score = Relevance(scores[i], max_raw(scores))]]

\* Answers without the test for an empty catalog
Answers_unchecked(docs, max_results) == max_results > 0

\* whether the call gets as far as the statistics
Answers(docs, max_results) == max_results > 0 /\ Len(docs) > 0

\* search_and_rank that returns only the documents that match
search_and_rank_matching(docs, query, max_results, ties) ==
    IF ~Answers(docs, max_results) THEN <<>>
    ELSE LET sorted == qsort(Scored(docs, query), ties)
             hits == Cardinality({i \in 1..Len(sorted) :
                                     sorted[i].relevance_score[1] > 0})
         IN  Take(sorted, IF hits < max_results THEN hits ELSE max_results)

\* search_and_rank whose sort turns the ties round on every other call
search_and_rank_alternating(docs, query, max_results, ties) ==
    IF ~Answers(docs, max_results) THEN <<>>
    ELSE LET now == IF g_total_queries % 2 = 0 THEN ties
                    ELSE IF ties = "kept" THEN "reversed" ELSE "kept"
             sorted == qsort(Scored(docs, query), now)
         IN  Take(sorted, IF Len(docs) < max_results THEN Len(docs) ELSE max_results)

\* results[0 .. out_count-1] of search_and_rank; <<>> when it returns 0
\* before it has looked at a document
search_and_rank(docs, query, max_results, ties) ==
    IF ~Answers(docs, max_results) THEN <<>>
    ELSE LET sorted == qsort(Scored(docs, query), ties)
         IN  Take(sorted, IF Len(docs) < max_results THEN Len(docs) ELSE max_results)

\* index_commit_message: the words into the tree, the message into the catalog
index_commit_message_ac(ac, msg) == AddWords(ac, MessageWords(msg), SCORE_COMMIT_WORD)

index_commit_message_docs(docs, msg, commit_id) ==
    add_document_to_search_engine_virtual(docs, CommitDoc(msg, commit_id))

-----------------------------------------------------------------------------
(* minigit.c: the snapshot store *)

\* Commit: commit_id, message, files[0 .. file_count-1]; next is the rest of
\* the sequence the commit stands in
NewCommit(commit_id, msg, files, file_count) ==
    [commit_id |-> commit_id, message |-> Take(msg, MESSAGE_COPY),
     files |-> files, file_count |-> file_count]

\* StagedSnapshots with the content each file had when the session began
\* instead of the content read at commit time
StagedSnapshots_early(fs, staged, garbage) ==
    [i \in 1..Len(staged) |->
        [filename |-> Take(Basename(staged[i]), MAX_FILENAME - 1),
         content  |-> IF staged[i] \in {Resolve(<<"x", "/", "a">>), Resolve(<<"y", "/", "a">>)}
                      THEN IF staged[i] = Resolve(<<"x", "/", "a">>)
                           THEN <<"a", "b">> ELSE <<"c", " ", "A", "_", "b">>
                      ELSE garbage[i]]]

\* StagedSnapshots that copies the staging list from its tail, the file
\* staged first becoming the first snapshot
StagedSnapshots_oldest_first(fs, staged, garbage) ==
    [i \in 1..Len(staged) |->
        [filename |-> Take(Basename(staged[Len(staged) + 1 - i]), MAX_FILENAME - 1),
         content  |-> IF CanOpen(fs, staged[Len(staged) + 1 - i])
                      THEN Take(ReadFile(fs, staged[Len(staged) + 1 - i]),
                                MAX_FILE_CONTENT - 1)
                      ELSE garbage[Len(staged) + 1 - i]]]

\* one pass of the loop of commit_staged over the staging list: the basename
\* and the content read now; a file that cannot be opened leaves the content
\* bytes of the malloc'ed commit as they were (garbage[i])
StagedSnapshots(fs, staged, garbage) ==
    [i \in 1..Len(staged) |->
        [filename |-> Take(Basename(staged[i]), MAX_FILENAME - 1),
         content  |-> IF CanOpen(fs, staged[i])
                      THEN Take(ReadFile(fs, staged[i]), MAX_FILE_CONTENT - 1)
                      ELSE garbage[i]]]

\* the loop of save_commit over the directory entries, in readdir order
SavedSnapshots(fs, names) ==
    [i \in 1..Len(names) |->
        [filename |-> Take(names[i], MAX_FILENAME),
         content  |-> Take(ReadFile(fs, WorkPath(names[i])), MAX_FILE_CONTENT - 1)]]

\* index_file_for_search on paths[i], paths[i+1], ... in turn (the test on
\* the counter only makes the model checker finish one file before the next)
RECURSIVE IndexFiles(_, _, _, _)
IndexFiles(ac, fs, paths, i) ==
    IF i > Len(paths) THEN ac
    ELSE LET nxt == index_file_for_search(ac, fs, paths[i])
         IN  IF nxt.total_suggestions >= 0 THEN IndexFiles(nxt, fs, paths, i + 1) ELSE ac

\* the first commit of the list with this id (0: none)
RECURSIVE FindCommit(_, _, _)
FindCommit(head, cid, i) ==
    IF i > Len(head) THEN 0
    ELSE IF head[i].commit_id = cid THEN i
    ELSE FindCommit(head, cid, i + 1)

\* the loop of checkout_commit: each snapshot written in array order
\* (fopen(path, "w") fails for an empty name; the test on the domain only
\* makes the model checker finish one write before the next)
RECURSIVE WriteSnapshots(_, _, _)
WriteSnapshots(fs, files, i) ==
    IF i > Len(files) THEN fs
    ELSE LET nxt == IF files[i].filename = <<>> THEN fs
                    ELSE WriteFile(fs, WorkPath(files[i].filename), files[i].content)
         IN  IF DOMAIN nxt # {} THEN WriteSnapshots(nxt, files, i + 1) ELSE fs

RemoveAt(seq, i) == SubSeq(seq, 1, i - 1) \o SubSeq(seq, i + 1, Len(seq))

AcNow == [root |-> root, total_suggestions |-> total_suggestions]

\* what a malloc'ed content buffer may hold when nothing was read into it
GarbageContents == {<<>>, <<"g">>}

\* what the bytes of file_count may hold once files[MAX_FILES_PER_COMMIT] was
\* written over them
CorruptCounts == {0, MAX_FILES_PER_COMMIT + 1}

Unreadable(fs, staged) == {i \in 1..Len(staged) : ~CanOpen(fs, staged[i])}

\* init_repository that also empties the staging list
init_repository_unstage ==
    /\ ~crashed
    /\ UNCHANGED <<suggestions, results, g_total_queries, qsort_ties, answered>>
    /\ repo' = [head |-> <<>>, commit_count |-> 0]
    /\ index_head' = <<>>
    /\ out' = "Repository has been initialized."
    /\ UNCHANGED <<g_documents, root, total_suggestions, disk, workdir,
                   crashed, created>>

init_repository ==
    /\ ~crashed
    /\ UNCHANGED <<suggestions, results, g_total_queries, qsort_ties, answered>>
    /\ repo' = [head |-> <<>>, commit_count |-> 0]
    /\ out' = "Repository has been initialized."
    /\ UNCHANGED <<index_head, g_documents, root, total_suggestions, disk, workdir,
                   crashed, created>>

\* fullpath[]: an absolute name as typed, any other under getcwd()
FullPath(filename) ==
    IF Head(filename) \in {"/", "\\"}
    THEN Take(filename, MAX_FILENAME - 1)
    ELSE Take(Cwd \o <<"/">> \o filename, MAX_FILENAME - 1)

\* add_file with the entry pushed before the file is probed
add_file_push_first(filename) ==
    /\ ~crashed
    /\ UNCHANGED <<suggestions, results, g_total_queries, qsort_ties, answered>>
    /\ filename # <<>>
    /\ index_head' = <<FullPath(filename)>> \o index_head
    /\ out' = IF CanOpen(disk, FullPath(filename)) THEN "File added."
              ELSE "Error: File does not exist."
    /\ UNCHANGED <<g_documents, root, total_suggestions, repo, disk, workdir, crashed,
                   created>>

\* add_file that skips a path already on the staging list
add_file_dedup(filename) ==
    /\ ~crashed
    /\ UNCHANGED <<suggestions, results, g_total_queries, qsort_ties, answered>>
    /\ filename # <<>>
    /\ CanOpen(disk, FullPath(filename))
    /\ LET ac == index_file_for_search(AcNow, disk, FullPath(filename))
       IN  /\ index_head' =
                  IF \E i \in 1..Len(index_head) : index_head[i] = FullPath(filename)
                  THEN index_head
                  ELSE <<FullPath(filename)>> \o index_head
           /\ root' = ac.root
           /\ total_suggestions' = ac.total_suggestions
           /\ g_documents' =
                  add_document_to_search_engine(g_documents, disk, FullPath(filename))
           /\ out' = "File added."
    /\ UNCHANGED <<repo, disk, workdir, crashed, created>>

add_file(filename) ==
    /\ ~crashed
    /\ UNCHANGED <<suggestions, results, g_total_queries, qsort_ties, answered>>
    /\ IF filename = <<>>
       THEN /\ out' = "Invalid filename."
            /\ UNCHANGED <<index_head, g_documents, root, total_suggestions>>
       ELSE LET fullpath == FullPath(filename)
            IN  IF ~CanOpen(disk, fullpath)
                THEN /\ out' = "Error: File does not exist."
                     /\ UNCHANGED <<index_head, g_documents, root, total_suggestions>>
                ELSE LET ac == index_file_for_search(AcNow, disk, fullpath)
                     IN  /\ index_head' = <<fullpath>> \o index_head
                         /\ root' = ac.root
                         /\ total_suggestions' = ac.total_suggestions
                         /\ g_documents' =
                                add_document_to_search_engine(g_documents, disk, fullpath)
                         /\ out' = "File added."
    /\ UNCHANGED <<repo, disk, workdir, crashed, created>>

RECURSIVE AddFileDocuments(_, _, _, _)
AddFileDocuments(docs, fs, paths, i) ==
    IF i > Len(paths) THEN docs
    ELSE AddFileDocuments(add_document_to_search_engine(docs, fs, paths[i]),
                          fs, paths, i + 1)

\* StoreCommit that also adds a document for every file it indexes
StoreCommit_file_documents(msg, snaps, paths, status, staged_after) ==
    LET id == repo.commit_count + 1
        ac1 == IndexFiles(AcNow, disk, paths, 1)
        ac2 == index_commit_message_ac(ac1, Take(msg, MESSAGE_COPY))
    IN  IF Len(snaps) <= MAX_FILES_PER_COMMIT
        THEN /\ repo' = [head |-> <<NewCommit(id, msg, snaps, Len(snaps))>> \o repo.head,
                         commit_count |-> id]
             /\ root' = ac2.root
             /\ total_suggestions' = ac2.total_suggestions
             /\ g_documents' =
                    index_commit_message_docs(AddFileDocuments(g_documents, disk, paths, 1),
                                              Take(msg, MESSAGE_COPY), id)
             /\ created' = Append(created, id)
             /\ out' = status
             /\ index_head' = staged_after
             /\ UNCHANGED crashed
        ELSE /\ crashed' = TRUE
             /\ repo' = [head |-> repo.head, commit_count |-> id]
             /\ created' = Append(created, id)
             /\ out' = "Segmentation fault"
             /\ UNCHANGED <<root, total_suggestions, g_documents, index_head>>

\* StoreCommit that links the new commit behind the last one of the list
StoreCommit_append(msg, snaps, paths, status, staged_after) ==
    LET id == repo.commit_count + 1
        ac1 == IndexFiles(AcNow, disk, paths, 1)
        ac2 == index_commit_message_ac(ac1, Take(msg, MESSAGE_COPY))
    IN  /\ repo' = [head |-> repo.head \o <<NewCommit(id, msg, snaps, Len(snaps))>>,
                    commit_count |-> id]
        /\ root' = ac2.root
        /\ total_suggestions' = ac2.total_suggestions
        /\ g_documents' =
               index_commit_message_docs(g_documents, Take(msg, MESSAGE_COPY), id)
        /\ created' = Append(created, id)
        /\ out' = status
        /\ index_head' = staged_after
        /\ UNCHANGED crashed

\* StoreCommit that refuses the commit when the catalog cannot take the
\* document of its message
StoreCommit_full_blocks(msg, snaps, paths, status, staged_after) ==
    LET id == repo.commit_count + 1
        ac1 == IndexFiles(AcNow, disk, paths, 1)
        ac2 == index_commit_message_ac(ac1, Take(msg, MESSAGE_COPY))
    IN  IF Len(g_documents) >= MAX_DOCUMENTS
        THEN /\ out' = "Catalog full."
             /\ UNCHANGED <<repo, root, total_suggestions, g_documents, created,
                            index_head, crashed>>
        ELSE /\ repo' = [head |-> <<NewCommit(id, msg, snaps, Len(snaps))>> \o repo.head,
                         commit_count |-> id]
             /\ root' = ac2.root
             /\ total_suggestions' = ac2.total_suggestions
             /\ g_documents' =
                    index_commit_message_docs(g_documents, Take(msg, MESSAGE_COPY), id)
             /\ created' = Append(created, id)
             /\ out' = status
             /\ index_head' = staged_after
             /\ UNCHANGED crashed

\* StoreCommit that indexes the message before the files
StoreCommit_message_first(msg, snaps, paths, status, staged_after) ==
    LET id == repo.commit_count + 1
        ac1 == index_commit_message_ac(AcNow, Take(msg, MESSAGE_COPY))
        ac2 == IndexFiles(ac1, disk, paths, 1)
    IN  /\ repo' = [head |-> <<NewCommit(id, msg, snaps, Len(snaps))>> \o repo.head,
                    commit_count |-> id]
        /\ root' = ac2.root
        /\ total_suggestions' = ac2.total_suggestions
        /\ g_documents' =
               index_commit_message_docs(g_documents, Take(msg, MESSAGE_COPY), id)
        /\ created' = Append(created, id)
        /\ out' = status
        /\ index_head' = staged_after
        /\ UNCHANGED crashed

\* The tail shared by commit_staged and save_commit once the snapshots are
\* taken: nfiles snapshots were to be stored, paths are the files indexed.
\* Storing snapshot number MAX_FILES_PER_COMMIT + 1 writes past files[]: over
\* file_count, over next, and past the end of the allocation.
StoreCommit(msg, snaps, paths, status, staged_after) ==
    LET id == repo.commit_count + 1
        ac1 == IndexFiles(AcNow, disk, paths, 1)
        ac2 == index_commit_message_ac(ac1, Take(msg, MESSAGE_COPY))
    IN  IF Len(snaps) <= MAX_FILES_PER_COMMIT
        THEN /\ repo' = [head |-> <<NewCommit(id, msg, snaps, Len(snaps))>> \o repo.head,
                         commit_count |-> id]
             /\ root' = ac2.root
             /\ total_suggestions' = ac2.total_suggestions
             /\ g_documents' =
                    index_commit_message_docs(g_documents, Take(msg, MESSAGE_COPY), id)
             /\ created' = Append(created, id)
             /\ out' = status
             /\ index_head' = staged_after
             /\ UNCHANGED crashed
        ELSE \/ /\ crashed' = TRUE
                /\ repo' = [head |-> repo.head, commit_count |-> id]
                /\ created' = Append(created, id)
                /\ out' = "Segmentation fault"
                /\ UNCHANGED <<root, total_suggestions, g_documents, index_head>>
             \/ \E n \in CorruptCounts, rest \in {repo.head, <<>>} :
                /\ repo' = [head |-> <<NewCommit(id, msg,
                                          SubSeq(snaps, 1, MAX_FILES_PER_COMMIT), n)>>
                                     \o rest,
                            commit_count |-> id]
                /\ root' = ac2.root
                /\ total_suggestions' = ac2.total_suggestions
                /\ g_documents' =
                       index_commit_message_docs(g_documents, Take(msg, MESSAGE_COPY), id)
                /\ created' = Append(created, id)
                /\ out' = status
                /\ index_head' = staged_after
                /\ UNCHANGED crashed

\* commit_staged without the test for an empty staging list
commit_staged_no_test(msg) ==
    /\ ~crashed
    /\ UNCHANGED <<suggestions, results, g_total_queries, qsort_ties, answered>>
    /\ \E garbage \in [Unreadable(disk, index_head) -> GarbageContents] :
          StoreCommit(msg, StagedSnapshots(disk, index_head, garbage),
                      index_head, "Commit created.", <<>>)
    /\ UNCHANGED <<disk, workdir>>

\* commit_staged that leaves the staging list as it was
commit_staged_keep(msg) ==
    /\ ~crashed
    /\ UNCHANGED <<suggestions, results, g_total_queries, qsort_ties, answered>>
    /\ IF index_head = <<>>
       THEN /\ out' = "No files to commit."
            /\ UNCHANGED <<repo, index_head, g_documents, root, total_suggestions,
                           crashed, created>>
       ELSE \E garbage \in [Unreadable(disk, index_head) -> GarbageContents] :
                 StoreCommit(msg, StagedSnapshots(disk, index_head, garbage),
                             index_head, "Commit created.", index_head)
    /\ UNCHANGED <<disk, workdir>>

\* commit_staged that rewrites the message of the newest commit when there
\* is one, instead of creating a commit
commit_staged_amend(msg) ==
    /\ ~crashed
    /\ UNCHANGED <<suggestions, results, g_total_queries, qsort_ties, answered>>
    /\ IF index_head = <<>>
       THEN /\ out' = "No files to commit."
            /\ UNCHANGED <<repo, index_head, g_documents, root, total_suggestions,
                           crashed, created>>
       ELSE IF repo.head = <<>>
       THEN \E garbage \in [Unreadable(disk, index_head) -> GarbageContents] :
                 StoreCommit(msg, StagedSnapshots(disk, index_head, garbage),
                             index_head, "Commit created.", <<>>)
       ELSE /\ repo' = [repo EXCEPT !.head[1].message = Take(msg, MESSAGE_COPY)]
            /\ index_head' = <<>>
            /\ out' = "Commit created."
            /\ UNCHANGED <<g_documents, root, total_suggestions, crashed, created>>
    /\ UNCHANGED <<disk, workdir>>

commit_staged(msg) ==
    /\ ~crashed
    /\ UNCHANGED <<suggestions, results, g_total_queries, qsort_ties, answered>>
    /\ IF index_head = <<>>
       THEN /\ out' = "No files to commit."
            /\ UNCHANGED <<repo, index_head, g_documents, root, total_suggestions,
                           crashed, created>>
       ELSE \E garbage \in [Unreadable(disk, index_head) -> GarbageContents] :
                 StoreCommit(msg, StagedSnapshots(disk, index_head, garbage),
                             index_head, "Commit created.", <<>>)
    /\ UNCHANGED <<disk, workdir>>

\* the orders in which readdir may return a set of names
Orders(names) ==
    {o \in [1..Cardinality(names) -> names] :
        \A i, j \in 1..Cardinality(names) : i # j => o[i] # o[j]}

RECURSIVE WorkPaths(_)
WorkPaths(names) ==
    IF names = <<>> THEN <<>> ELSE <<WorkPath(Head(names))>> \o WorkPaths(Tail(names))

\* save_commit that empties the staging list as commit_staged does
save_commit_clears(msg) ==
    /\ ~crashed
    /\ UNCHANGED <<suggestions, results, g_total_queries, qsort_ties, answered>>
    /\ workdir' = TRUE
    /\ \E names \in Orders({d \in DirEntries(disk) : Head(d) # "."}) :
          StoreCommit(msg, SavedSnapshots(disk, names), WorkPaths(names),
                      "Created commit.", <<>>)
    /\ UNCHANGED disk

\* save_commit that takes the names starting with '.' as well
save_commit_with_hidden(msg) ==
    /\ ~crashed
    /\ UNCHANGED <<suggestions, results, g_total_queries, qsort_ties, answered>>
    /\ workdir' = TRUE
    /\ \E names \in Orders(DirEntries(disk)) :
          StoreCommit(msg, SavedSnapshots(disk, names), WorkPaths(names),
                      "Created commit.", index_head)
    /\ UNCHANGED disk

save_commit(msg) ==
    /\ ~crashed
    /\ UNCHANGED <<suggestions, results, g_total_queries, qsort_ties, answered>>
    /\ workdir' = TRUE
    /\ \E names \in Orders({d \in DirEntries(disk) : Head(d) # "."}) :
          StoreCommit(msg, SavedSnapshots(disk, names), WorkPaths(names),
                      "Created commit.", index_head)
    /\ UNCHANGED disk

\* checkout_commit as a clean replace: the directory is emptied first
checkout_commit_clean(cid) ==
    /\ ~crashed
    /\ UNCHANGED <<suggestions, results, g_total_queries, qsort_ties, answered>>
    /\ workdir' = TRUE
    /\ LET i == FindCommit(repo.head, cid, 1)
           kept == [q \in DOMAIN disk \ {Resolve(WorkPath(d)) : d \in DirEntries(disk)}
                       |-> disk[q]]
       IN  IF i = 0
           THEN /\ out' = "Commit not found."
                /\ UNCHANGED disk
           ELSE /\ disk' = WriteSnapshots(kept, repo.head[i].files, 1)
                /\ out' = "Files written."
    /\ UNCHANGED <<repo, index_head, g_documents, root, total_suggestions, created,
                   crashed>>

checkout_commit(cid) ==
    /\ ~crashed
    /\ UNCHANGED <<suggestions, results, g_total_queries, qsort_ties, answered>>
    /\ workdir' = TRUE
    /\ LET i == FindCommit(repo.head, cid, 1)
       IN  IF i = 0
           THEN /\ out' = "Commit not found."
                /\ UNCHANGED <<disk, crashed>>
           ELSE IF repo.head[i].file_count <= Len(repo.head[i].files)
           THEN /\ disk' = WriteSnapshots(disk,
                               SubSeq(repo.head[i].files, 1, repo.head[i].file_count), 1)
                /\ out' = "Files written."
                /\ UNCHANGED crashed
           ELSE \* the loop reads files[] past its end
                /\ crashed' = TRUE
                /\ out' = "Segmentation fault"
                /\ UNCHANGED disk
    /\ UNCHANGED <<repo, index_head, g_documents, root, total_suggestions, created>>

view_commit(cid) ==
    /\ ~crashed
    /\ UNCHANGED <<suggestions, results, g_total_queries, qsort_ties, answered>>
    /\ LET i == FindCommit(repo.head, cid, 1)
       IN  IF i = 0
           THEN /\ out' = "Commit not found."
                /\ UNCHANGED crashed
           ELSE IF repo.head[i].file_count <= Len(repo.head[i].files)
           THEN /\ out' = "Files in this commit."
                /\ UNCHANGED crashed
           ELSE /\ crashed' = TRUE
                /\ out' = "Segmentation fault"
    /\ UNCHANGED <<repo, index_head, g_documents, root, total_suggestions, disk,
                   workdir, created>>

\* delete_commit that gives the id back when the newest commit is deleted
delete_commit_reuse(cid) ==
    /\ ~crashed
    /\ UNCHANGED <<suggestions, results, g_total_queries, qsort_ties, answered>>
    /\ LET i == FindCommit(repo.head, cid, 1)
       IN  IF i = 0
           THEN /\ out' = "Commit not found."
                /\ UNCHANGED repo
           ELSE /\ repo' = [head |-> RemoveAt(repo.head, i),
                            commit_count |-> IF cid = repo.commit_count
                                             THEN repo.commit_count - 1
                                             ELSE repo.commit_count]
                /\ out' = "Commit deleted."
    /\ UNCHANGED <<index_head, g_documents, root, total_suggestions, disk, workdir,
                   crashed, created>>

\* delete_commit that also takes the message document of the commit out of
\* the catalog
delete_commit_retract(cid) ==
    /\ ~crashed
    /\ UNCHANGED <<suggestions, results, g_total_queries, qsort_ties, answered>>
    /\ LET i == FindCommit(repo.head, cid, 1)
       IN  IF i = 0
           THEN /\ out' = "Commit not found."
                /\ UNCHANGED <<repo, g_documents>>
           ELSE /\ repo' = [repo EXCEPT !.head = RemoveAt(repo.head, i)]
                /\ g_documents' =
                       SelectSeq(g_documents, LAMBDA d : d.title # CommitTitle(cid))
                /\ out' = "Commit deleted."
    /\ UNCHANGED <<index_head, root, total_suggestions, disk, workdir, crashed, created>>

\* delete_commit that unlinks the head of the list once the id is found
delete_commit_first(cid) ==
    /\ ~crashed
    /\ UNCHANGED <<suggestions, results, g_total_queries, qsort_ties, answered>>
    /\ LET i == FindCommit(repo.head, cid, 1)
       IN  IF i = 0
           THEN /\ out' = "Commit not found."
                /\ UNCHANGED repo
           ELSE /\ repo' = [repo EXCEPT !.head = Tail(repo.head)]
                /\ out' = "Commit deleted."
    /\ UNCHANGED <<index_head, g_documents, root, total_suggestions, disk, workdir,
                   crashed, created>>

\* delete_commit that takes the words of the message out of the tree: their
\* nodes are no longer terminal
delete_commit_unindex(cid) ==
    /\ ~crashed
    /\ UNCHANGED <<suggestions, results, g_total_queries, qsort_ties, answered>>
    /\ LET i == FindCommit(repo.head, cid, 1)
       IN  IF i = 0
           THEN /\ out' = "Commit not found."
                /\ UNCHANGED <<repo, root>>
           ELSE /\ repo' = [repo EXCEPT !.head = RemoveAt(repo.head, i)]
                /\ root' = [q \in DOMAIN root |->
                               IF \E k \in 1..Len(MessageWords(repo.head[i].message)) :
                                     TrieKey(MessageWords(repo.head[i].message)[k]) = q
                               THEN [root[q] EXCEPT !.is_end_of_word = FALSE]
                               ELSE root[q]]
                /\ out' = "Commit deleted."
    /\ UNCHANGED <<index_head, g_documents, total_suggestions, disk, workdir,
                   crashed, created>>

delete_commit(cid) ==
    /\ ~crashed
    /\ UNCHANGED <<suggestions, results, g_total_queries, qsort_ties, answered>>
    /\ LET i == FindCommit(repo.head, cid, 1)
       IN  IF i = 0
           THEN /\ out' = "Commit not found."
                /\ UNCHANGED repo
           ELSE /\ repo' = [repo EXCEPT !.head = RemoveAt(repo.head, i)]
                /\ out' = "Commit deleted."
    /\ UNCHANGED <<index_head, g_documents, root, total_suggestions, disk, workdir,
                   crashed, created>>

\* the lines view_log prints: the id and the message of each commit, from
\* the head of the list
LogLines(head) == [i \in 1..Len(head) |-> <<head[i].commit_id, head[i].message>>]

view_log ==
    /\ ~crashed
    /\ UNCHANGED <<suggestions, results, g_total_queries, qsort_ties, answered>>
    /\ out' = IF repo.head = <<>> THEN "No commits yet." ELSE "Commit log."
    /\ UNCHANGED <<repo, index_head, g_documents, root, total_suggestions, disk,
                   workdir, crashed, created>>

\* edit_file: the new text of a file of the working directory, typed in
edit_file(filename, text) ==
    /\ ~crashed
    /\ UNCHANGED <<suggestions, results, g_total_queries, qsort_ties, answered>>
    /\ workdir' = TRUE
    /\ IF ~CanOpen(disk, WorkPath(filename))
       THEN /\ out' = "File not found in working directory."
            /\ UNCHANGED disk
       ELSE /\ disk' = WriteFile(disk, WorkPath(filename), text)
            /\ out' = "File updated."
    /\ UNCHANGED <<repo, index_head, g_documents, root, total_suggestions, crashed,
                   created>>

-----------------------------------------------------------------------------
(* autocomplete.c and cli.c: the calls on the autocomplete engine *)

\* a call of add_autocomplete_suggestion; it prints the line on success and
\* nothing on failure, where out keeps the value returned
AddSuggestion(suggestion, score, source) ==
    /\ ~crashed
    /\ UNCHANGED <<suggestions, results, g_total_queries, qsort_ties, answered>>
    /\ LET ac == add_autocomplete_suggestion(AcNow, suggestion, score, source)
       IN  /\ root' = ac.root
           /\ total_suggestions' = ac.total_suggestions
    /\ out' = IF add_autocomplete_suggestion_status(suggestion) = 0
              THEN "ADDING TO AUTOCOMPLETE" ELSE "-1"
    /\ UNCHANGED <<repo, index_head, g_documents, disk, workdir, crashed, created>>

\* handle_suggest: the suggestions for a term, at most max_suggestions of them
handle_suggest(term, max_suggestions) ==
    /\ ~crashed
    /\ suggestions' \in get_autocomplete_suggestions(root, term, max_suggestions)
    /\ out' = IF suggestions' = <<>> THEN "No suggestions found."
              ELSE "Autocomplete suggestions."
    /\ UNCHANGED <<repo, index_head, g_documents, root, total_suggestions, disk,
                   workdir, crashed, created,
                   results, g_total_queries, qsort_ties, answered>>

\* the history after a call: the first call answered on the present catalog
\* and whether a different call has been answered on it since
Remembered(term, max_results, returned) ==
    IF \E e \in answered : e.catalog = g_documents
    THEN {[e EXCEPT !.others = e.others \/ e.query # term \/ e.max_results # max_results] :
             e \in answered}
    ELSE {[catalog |-> g_documents, query |-> term, max_results |-> max_results,
           results |-> returned, others |-> FALSE]}

\* handle_search that stores the relevance it computed, in hundredths, in
\* the catalog
handle_search_writeback(term, max_results) ==
    /\ ~crashed
    /\ qsort_ties' \in IF qsort_ties = "unseen" /\ Answers(g_documents, max_results)
                       THEN QsortTies ELSE {qsort_ties}
    /\ results' = search_and_rank(g_documents, term, max_results, qsort_ties')
    /\ g_documents' =
          IF Answers(g_documents, max_results)
          THEN [i \in 1..Len(g_documents) |->
                  [g_documents[i] EXCEPT !.relevance_score =
                      (Scored(g_documents, term)[i].relevance_score[1] * 100)
                         \div Scored(g_documents, term)[i].relevance_score[2]]]
          ELSE g_documents
    /\ g_total_queries' = IF Answers(g_documents, max_results)
                          THEN g_total_queries + 1 ELSE g_total_queries
    /\ answered' = Remembered(term, max_results, results')
    /\ out' = IF results' = <<>> THEN "No results found." ELSE "Search results."
    /\ UNCHANGED <<repo, index_head, root, total_suggestions, disk,
                   workdir, crashed, created, suggestions>>

\* handle_search: search_and_rank and the listing of what it returned; the
\* first call that sorts shows what this build's qsort does with ties
handle_search(term, max_results) ==
    /\ ~crashed
    /\ qsort_ties' \in IF qsort_ties = "unseen" /\ Answers(g_documents, max_results)
                       THEN QsortTies ELSE {qsort_ties}
    /\ results' = search_and_rank(g_documents, term, max_results, qsort_ties')
    /\ g_total_queries' = IF Answers(g_documents, max_results)
                          THEN g_total_queries + 1 ELSE g_total_queries
    /\ answered' = Remembered(term, max_results, results')
    /\ out' = IF results' = <<>> THEN "No results found." ELSE "Search results."
    /\ UNCHANGED <<repo, index_head, g_documents, root, total_suggestions, disk,
                   workdir, crashed, created, suggestions>>

-----------------------------------------------------------------------------
(* The user's files change between commands: an editor writes one, rm       *)
(* removes one.                                                             *)

ExternalWrite(path, text) ==
    /\ ~crashed
    /\ UNCHANGED <<suggestions, results, g_total_queries, qsort_ties, answered>>
    /\ disk' = WriteFile(disk, path, text)
    /\ UNCHANGED <<repo, index_head, g_documents, root, total_suggestions, workdir,
                   out, crashed, created>>

ExternalRemove(path) ==
    /\ ~crashed
    /\ UNCHANGED <<suggestions, results, g_total_queries, qsort_ties, answered>>
    /\ CanOpen(disk, path)
    /\ disk' = [q \in DOMAIN disk \ {Resolve(path)} |-> disk[q]]
    /\ UNCHANGED <<repo, index_head, g_documents, root, total_suggestions, workdir,
                   out, crashed, created>>

-----------------------------------------------------------------------------
(* Bounds and inputs of the model *)

MaxStaged == 2
MaxCreated == 2

\* two source files with the same basename and different text, one name
\* that matches no file, and a file left in .mgit_work by an earlier run
PathXA == <<"x", "/", "a">>
PathYA == <<"y", "/", "a">>
PathNone == <<"n">>
NameB == <<"b">>

Text1 == <<"a", "b">>
Text2 == <<"c", " ", "A", "_", "b">>

Messages == {<<"A", "b", " ", "t">>}

CommitIds == 0..MaxCreated

\* the largest number of suggestions a caller asks for
MaxSuggest == 3

\* prefixes and search terms asked of the indexes the store fills
Prefixes == {<<"a">>, <<"T">>}
SearchTerms == {<<"a", "b">>, <<"A", "b", " ", "t">>}

EmptyDisk == [q \in {} |-> <<>>]

InitialDisk ==
    WriteFile(WriteFile(WriteFile(EmptyDisk, PathXA, Text1), PathYA, Text2),
              WorkPath(NameB), Text1)

Init ==
    /\ repo = [head |-> <<>>, commit_count |-> 0]
    /\ index_head = <<>>
    /\ g_documents = <<>>
    /\ root = EmptyTrie
    /\ total_suggestions = 0
    /\ disk = InitialDisk
    /\ workdir = TRUE
    /\ out = "Repository has been initialized."
    /\ crashed = FALSE
    /\ created = <<>>
    /\ suggestions = <<>>
    /\ results = <<>>
    /\ g_total_queries = 0
    /\ qsort_ties = "unseen"
    /\ answered = {}

Stage == \E f \in {PathXA, PathYA, PathNone} : Len(index_head) < MaxStaged /\ add_file(f)
CommitStaged == \E m \in Messages : Len(created) < MaxCreated /\ commit_staged(m)
Save == \E m \in Messages : Len(created) < MaxCreated /\ save_commit(m)
Checkout == \E cid \in CommitIds : checkout_commit(cid)
Delete == \E cid \in CommitIds : delete_commit(cid)
InitCmd == init_repository
UserRemoves == ExternalRemove(PathXA)

\* the store's commands, with a source file that may vanish
Next == Stage \/ CommitStaged \/ Save \/ Checkout \/ Delete \/ UserRemoves

Spec == Init /\ [][Next]_vars

\* staging and committing, of files that exist, that never existed, and of
\* one that is removed meanwhile
NextStage == Stage \/ CommitStaged \/ UserRemoves

SpecStage == Init /\ [][NextStage]_vars

\* the commands that create and delete commits, on one source file
StageOne == Len(index_head) < MaxStaged /\ add_file(PathXA)

NextIds == StageOne \/ CommitStaged \/ Save \/ Delete

SpecIds == Init /\ [][NextIds]_vars

\* the same with the init command
NextInit == NextIds \/ InitCmd

SpecInit == Init /\ [][NextInit]_vars

\* commits of two files with one basename, each staged at most once per
\* commit, checked out next to the file already in the working directory
StageTwo ==
    \E f \in {PathXA, PathYA} :
        /\ \A i \in 1..Len(index_head) : index_head[i] # FullPath(f)
        /\ add_file(f)

NextCheckout == StageTwo \/ CommitStaged \/ Checkout

SpecCheckout == Init /\ [][NextCheckout]_vars

-----------------------------------------------------------------------------
(* Capacity: one file staged over and over, and committed in batches that   *)
(* fill the snapshot array or pass it by one entry, until the catalog is    *)
(* full.                                                                    *)

CapMaxCreated == 2

CapStage == Len(index_head) <= MAX_FILES_PER_COMMIT /\ add_file(PathYA)
CapCommitStaged ==
    \E m \in Messages :
        /\ Len(created) < CapMaxCreated
        /\ Len(index_head) >= MAX_FILES_PER_COMMIT
        /\ commit_staged(m)
CapCheckout == \E cid \in 1..CapMaxCreated : checkout_commit(cid)

NextCap == CapStage \/ CapCommitStaged \/ CapCheckout

SpecCap == Init /\ [][NextCap]_vars

-----------------------------------------------------------------------------
(* The full catalog: one path is staged until the list fills a commit, the  *)
(* list is committed, and once the catalog holds MAX_DOCUMENTS documents    *)
(* commits are checked out and the working directory is saved.              *)

FullMaxCreated == 3

FullStage == Len(index_head) < MAX_FILES_PER_COMMIT /\ add_file(PathYA)

FullCommitStaged ==
    \E m \in Messages :
        /\ Len(created) < FullMaxCreated
        /\ Len(index_head) >= MAX_FILES_PER_COMMIT
        /\ commit_staged(m)

FullSave ==
    \E m \in Messages :
        /\ Len(created) < FullMaxCreated
        /\ Len(g_documents) >= MAX_DOCUMENTS
        /\ save_commit(m)

FullCheckout ==
    \E cid \in 1..FullMaxCreated :
        Len(g_documents) >= MAX_DOCUMENTS /\ checkout_commit(cid)

NextFull == FullStage \/ FullCommitStaged \/ FullCheckout \/ FullSave

SpecFull == Init /\ [][NextFull]_vars

-----------------------------------------------------------------------------
(* The working directory: a commit of a source file and of the file already *)
(* in .mgit_work (both staged before the first commit) is checked out, a    *)
(* file of the directory is edited, the directory is saved; meanwhile the   *)
(* user may remove the file that was there and drop a hidden file into the  *)
(* directory.                                                               *)

NameA == <<"a">>
NameHidden == <<".", "h">>
Text3 == <<"d">>

SaveStage ==
    \E f \in {PathXA, WorkPath(NameB)} :
        /\ created = <<>>
        /\ \A i \in 1..Len(index_head) : index_head[i] # FullPath(f)
        /\ add_file(f)
SaveEdit == edit_file(NameA, Text3)
SaveClear == ExternalRemove(WorkPath(NameB))
SaveHide == ExternalWrite(WorkPath(NameHidden), Text1)

NextSave ==
    SaveStage \/ CommitStaged \/ Save \/ Checkout \/ SaveEdit \/ SaveClear \/ SaveHide

SpecSave == Init /\ [][NextSave]_vars

-----------------------------------------------------------------------------
(* Creating, deleting and looking at commits *)

View == \E cid \in CommitIds : view_commit(cid)
Log == view_log

\* the source file is staged at most once per commit
StageOnce == index_head = <<>> /\ add_file(PathXA)

NextDelete == StageOnce \/ CommitStaged \/ Save \/ Delete \/ View \/ Checkout \/ Log

SpecDelete == Init /\ [][NextDelete]_vars

-----------------------------------------------------------------------------
(* Commits with different messages, of a source file that is edited between *)
(* the commands, looked at, checked out and deleted.                        *)

Message2 == <<"c">>

TwoMessages == Messages \cup {Message2}

CommitStagedAny == \E m \in TwoMessages : Len(created) < MaxCreated /\ commit_staged(m)
UserWrites == ExternalWrite(PathXA, Text2)

CommitStagedStepAny == \E m \in TwoMessages : commit_staged(m)

NextImmutable ==
    \/ StageOnce \/ CommitStagedAny \/ Save \/ Checkout \/ View \/ Log \/ Delete
    \/ UserWrites

SpecImmutable == Init /\ [][NextImmutable]_vars

\* staging and committing two source files, one of them edited meanwhile
NextEdit == StageTwo \/ CommitStagedAny \/ UserWrites

SpecEdit == Init /\ [][NextEdit]_vars

-----------------------------------------------------------------------------
(* Scores of the words: two source files that share a word with one of the  *)
(* messages are staged and committed, and the working directory, which      *)
(* holds a file with that word, is saved.                                   *)

SaveAny == \E m \in TwoMessages : Len(created) < MaxCreated /\ save_commit(m)

NextScore == StageTwo \/ CommitStagedAny \/ SaveAny

SpecScore == Init /\ [][NextScore]_vars

-----------------------------------------------------------------------------
(* The autocomplete engine on its own: a few suggestions inserted with and  *)
(* without a score, and prefixes asked for.                                 *)

MaxInserts == 3

TrieTexts == {<<"c", "a", "t">>, <<"c", "a", "r">>, <<"C", "_", "a">>, <<>>}
TrieScores == {-1, 0, 9}
TrieSources == {AC_SOURCE_DOCUMENT_TITLES, AC_SOURCE_OTHER}
TrieQueries == {<<"c">>, <<"C", "a">>, <<"c", "_">>}

Insert ==
    \E text \in TrieTexts, score \in TrieScores, source \in TrieSources :
        /\ text = <<>> \/ total_suggestions < MaxInserts
        /\ AddSuggestion(text, score, source)
Suggest ==
    \E query \in TrieQueries, max \in 0..MaxSuggest : handle_suggest(query, max)

NextTrie == Insert \/ Suggest

SpecTrie == Init /\ [][NextTrie]_vars

\* Texts that differ only in case and punctuation, and queries that hold a
\* character no edge is labelled with or that leave the tree half way.
KeyTexts == {<<"C", "_", "a">>, <<"c", "a">>, <<"c", "a", "b">>}
KeyScores == {0, 9}
KeyQueries == {<<"C", "_">>, <<"c", "b">>, <<"C">>}

InsertKey ==
    \E text \in KeyTexts, score \in KeyScores :
        /\ total_suggestions < MaxInserts
        /\ AddSuggestion(text, score, AC_SOURCE_DOCUMENT_TITLES)
SuggestKey ==
    \E query \in KeyQueries, max \in 1..MaxSuggest : handle_suggest(query, max)

NextKeys == InsertKey \/ SuggestKey

SpecKeys == Init /\ [][NextKeys]_vars

\* Texts without a letter or digit, next to texts with one.
RootTexts == {<<"_">>, <<"a">>, <<"_", "a">>}
RootQueries == {<<>>, <<"a">>, <<"_">>}

InsertRoot ==
    \E text \in RootTexts, score \in KeyScores :
        /\ total_suggestions < MaxInserts
        /\ AddSuggestion(text, score, AC_SOURCE_DOCUMENT_TITLES)
SuggestRoot ==
    \E query \in RootQueries, max \in 1..MaxSuggest : handle_suggest(query, max)

NextRoot == InsertRoot \/ SuggestRoot

SpecRoot == Init /\ [][NextRoot]_vars

-----------------------------------------------------------------------------
(* Queries on a catalog of up to three documents: the two files, staged    *)
(* one after the other before the first commit, and the commit message.    *)

MaxResults == 2
MaxQueries == 3

QueryA == <<"a">>
QueryC == <<"c">>
QueryThree == <<"c", " ", "C", " ", "a", "b">>
QueryBlank == <<" ">>
RankQueries == {QueryA, QueryC, QueryThree, QueryBlank}
RankFiles == <<PathXA, PathYA>>

RankStage ==
    /\ created = <<>>
    /\ Len(g_documents) < Len(RankFiles)
    /\ add_file(RankFiles[Len(g_documents) + 1])
Query ==
    \E term \in RankQueries, max \in {1, MaxResults} :
        /\ g_total_queries < MaxQueries
        /\ handle_search(term, max)

NextRank == RankStage \/ CommitStaged \/ Query

SpecRank == Init /\ [][NextRank]_vars

\* The three read operations from the start of a session, before and after
\* a file is staged and committed.
FreshQueries == {<<>>, <<"a">>, <<"_">>}

FreshTerms == {QueryA, QueryBlank}

FreshStage == created = <<>> /\ index_head = <<>> /\ add_file(PathXA)
SuggestFresh == \E query \in FreshQueries : handle_suggest(query, MaxSuggest)
QueryFresh ==
    \E term \in FreshTerms :
        g_total_queries < MaxQueries /\ handle_search(term, MaxResults)

NextFresh == FreshStage \/ CommitStaged \/ QueryFresh \/ SuggestFresh \/ Log

SpecFresh == Init /\ [][NextFresh]_vars

-----------------------------------------------------------------------------
(* The tree under every command: one commit is made, looked at, checked    *)
(* out and deleted, with prefixes and one search term asked in between.     *)

GrowSuggest == \E query \in Prefixes, max \in {1, MaxSuggest} : handle_suggest(query, max)
GrowQuery ==
    \E term \in SearchTerms : g_total_queries = 0 /\ handle_search(term, MaxResults)

\* the source file is staged and committed once, and once more staged
GrowCommit == \E m \in Messages : created = <<>> /\ commit_staged(m)

NextGrow ==
    \/ StageOnce \/ GrowCommit \/ Delete \/ View \/ Checkout \/ Log
    \/ GrowSuggest \/ GrowQuery

SpecGrow == Init /\ [][NextGrow]_vars

-----------------------------------------------------------------------------
(* Properties *)

HeadIds == {repo.head[i].commit_id : i \in 1..Len(repo.head)}

CommitStagedStep == \E m \in Messages : commit_staged(m)

\* C1: over CommitStaged, SaveFromWorkingDirectory and Delete (no init), every
\* commit gets an id strictly greater than the id of every commit created
\* before it, and never an id that a deleted commit had.
C1_IdsStrictlyIncrease ==
    [][\A k \in (Len(created) + 1)..Len(created') :
          /\ \A j \in 1..Len(created) : created[j] < created'[k]
          /\ \A i \in 1..Len(repo.head) : repo.head[i].commit_id < created'[k]
          /\ \E i \in 1..Len(repo'.head) : repo'.head[i].commit_id = created'[k]]_vars

\* a commit was created after the commit with id 1 had been deleted
C1_Witness ==
    /\ created = <<1, 2>>
    /\ HeadIds = {2}
    /\ out \in {"Commit created.", "Created commit."}

\* C2: over the whole command surface, init included, no two commits ever
\* created get the same id and the id counter never decreases.
C2_IdsNeverReused ==
    [][/\ repo'.commit_count >= repo.commit_count
       /\ \A k \in (Len(created) + 1)..Len(created') :
             \A j \in 1..Len(created) : created[j] # created'[k]]_vars

\* C3: every commit, from CommitStaged or from Save, holds at most
\* MAX_FILES_PER_COMMIT snapshots: of more staged files only that many are
\* copied, the rest dropped, and the command completes.
C3_AtMostFiftySnapshots ==
    /\ ~crashed
    /\ \A i \in 1..Len(repo.head) :
          /\ repo.head[i].file_count <= MAX_FILES_PER_COMMIT
          /\ repo.head[i].file_count = Len(repo.head[i].files)

\* C4: the catalog never holds more than MAX_DOCUMENTS documents, and an add
\* issued when it holds MAX_DOCUMENTS changes neither the count nor a document.
C4_CatalogBounded ==
    /\ [](Len(g_documents) <= MAX_DOCUMENTS)
    /\ [][Len(g_documents) = MAX_DOCUMENTS => g_documents' = g_documents]_vars

\* the catalog is full, the last entry is a file, and a file add and then the
\* message add of the second commit were issued against the full catalog
C4_Witness ==
    /\ Len(g_documents) = MAX_DOCUMENTS
    /\ g_documents[MAX_DOCUMENTS].url = "local-file"
    /\ Len(created) = 2
    /\ out = "Commit created."

StageInputs == {PathXA, PathYA, PathNone}

\* C5: CommitStaged with an empty staging list fails ("No files to commit.")
\* and changes nothing: no commit, the id counter, the commit list, the
\* catalog and the autocomplete tree as before.
C5_EmptyCommitRejected ==
    [][(CommitStagedStep /\ index_head = <<>>) =>
          /\ out' = "No files to commit."
          /\ UNCHANGED <<repo, index_head, g_documents, root, total_suggestions,
                         created, disk>>]_vars

\* a commit was refused while commits and catalog documents existed
C5_Witness ==
    /\ out = "No files to commit."
    /\ index_head = <<>>
    /\ repo.head # <<>>
    /\ g_documents # <<>>

\* C6: a successful CommitStaged with n staged entries (duplicates counted)
\* creates one commit with exactly n snapshots at the head of the commit list
\* and empties the staging list, so a CommitStaged issued next fails.
C6_CommitTakesAllStaged ==
    /\ [](out = "Commit created." => index_head = <<>>)
    /\ [][(CommitStagedStep /\ index_head # <<>>) =>
             /\ out' = "Commit created."
             /\ Len(repo'.head) = Len(repo.head) + 1
             /\ Tail(repo'.head) = repo.head
             /\ repo'.head[1].commit_id = repo.commit_count + 1
             /\ repo'.head[1].file_count = Len(index_head)
             /\ Len(repo'.head[1].files) = Len(index_head)
             /\ index_head' = <<>>]_vars
    /\ [][(CommitStagedStep /\ out = "Commit created.") =>
             (out' = "No files to commit." /\ repo' = repo)]_vars

\* the newest commit took two staged entries of the same basename, and the
\* CommitStaged after it was refused
C6_Witness ==
    /\ out = "No files to commit."
    /\ repo.head # <<>>
    /\ repo.head[1].file_count = 2
    /\ repo.head[1].files[1].filename = repo.head[1].files[2].filename
    /\ repo.head[1].commit_id = repo.commit_count

\* C7: Stage of a path that cannot be opened for reading fails and leaves the
\* staging list, the catalog, the autocomplete tree and the repository as
\* they were.
C7_StageUnreadableRejected ==
    [][\A f \in StageInputs :
          (add_file(f) /\ ~CanOpen(disk, FullPath(f))) =>
             /\ out' = "Error: File does not exist."
             /\ UNCHANGED <<index_head, g_documents, root, total_suggestions, repo,
                            created, disk>>]_vars

\* a stage was refused while the staging list and the catalog held entries
C7_Witness ==
    /\ out = "Error: File does not exist."
    /\ index_head # <<>>
    /\ g_documents # <<>>

IsPrefix(a, b) == Len(a) <= Len(b) /\ SubSeq(b, 1, Len(a)) = a

\* a stage of f that finds the file pushes one entry on the head of the
\* staging list, whatever the list holds
StagePushes(f) == index_head' = <<FullPath(f)>> \o index_head

\* ... and every word of the file is inserted: its node is terminal, holds a
\* word of the file spelling that node, with the file score
StageInsertsWords(f) ==
    LET ws == FileWords(ReadFile(disk, FullPath(f)), <<>>)
    IN  /\ total_suggestions' = total_suggestions + Len(ws)
        /\ \A k \in 1..Len(ws) :
              /\ TrieKey(ws[k]) \in DOMAIN root'
              /\ root'[TrieKey(ws[k])].is_end_of_word
              /\ root'[TrieKey(ws[k])].score = SCORE_FILE_WORD
              /\ \E j \in 1..Len(ws) :
                    /\ TrieKey(ws[j]) = TrieKey(ws[k])
                    /\ root'[TrieKey(ws[k])].suggestion = ws[j]

\* ... and one local-file document is appended to the catalog
StageAddsDocument(f) ==
    /\ Len(g_documents') = Len(g_documents) + 1
    /\ SubSeq(g_documents', 1, Len(g_documents)) = g_documents
    /\ g_documents'[Len(g_documents')].url = "local-file"
    /\ g_documents'[Len(g_documents')].title = FullPath(f)
    /\ g_documents'[Len(g_documents')].description = ReadFile(disk, FullPath(f))

\* no later step takes a document out of the catalog or a word out of the tree
IndexContributionsRemain ==
    /\ IsPrefix(g_documents, g_documents')
    /\ \A q \in DOMAIN root :
          /\ q \in DOMAIN root'
          /\ root[q].is_end_of_word => root'[q].is_end_of_word

\* C8 (as claimed): a successful Stage pushes exactly one entry (no
\* deduplication), inserts every word of the file into the autocomplete tree
\* and adds one local-file document to the catalog; the contributions remain.
C8_StageIndexesAlways ==
    [][/\ \A f \in StageInputs :
             (add_file(f) /\ CanOpen(disk, FullPath(f))) =>
                (StagePushes(f) /\ StageInsertsWords(f) /\ StageAddsDocument(f))
       /\ IndexContributionsRemain]_vars

\* C8 (amended): the document is added when the catalog holds fewer than
\* MAX_DOCUMENTS documents; at MAX_DOCUMENTS the catalog is left as it is,
\* the entry is still pushed and the words still inserted.
C8_StageIndexesBelowCapacity ==
    [][/\ \A f \in StageInputs :
             (add_file(f) /\ CanOpen(disk, FullPath(f))) =>
                /\ StagePushes(f)
                /\ StageInsertsWords(f)
                /\ IF Len(g_documents) < MAX_DOCUMENTS
                   THEN StageAddsDocument(f)
                   ELSE g_documents' = g_documents
       /\ IndexContributionsRemain]_vars

\* the same path is staged twice in a row, its document was added, and the
\* node of its word "a_b" is terminal
C8_Witness ==
    /\ out = "File added."
    /\ Len(index_head) >= 2
    /\ index_head[1] = index_head[2]
    /\ Len(g_documents) < MAX_DOCUMENTS
    /\ g_documents[Len(g_documents)].title = index_head[1]
    /\ <<"a", "b">> \in DOMAIN root
    /\ root[<<"a", "b">>].suggestion = <<"a", "_", "b">>

\* the snapshots Checkout(cid) writes, when the commit exists
SnapshotsOf(cid) ==
    LET i == FindCommit(repo.head, cid, 1)
    IN  IF i = 0 THEN <<>> ELSE repo.head[i].files

CheckoutTargets(cid) ==
    {Resolve(WorkPath(SnapshotsOf(cid)[k].filename)) : k \in 1..Len(SnapshotsOf(cid))}

\* C9: right after Checkout(id) of an existing commit, for every snapshot of
\* the commit the working-directory file named by the snapshot's basename
\* holds exactly the stored snapshot content.
C9_CheckoutRoundTrip ==
    [][\A cid \in CommitIds :
          (checkout_commit(cid) /\ FindCommit(repo.head, cid, 1) # 0) =>
             \A k \in 1..Len(SnapshotsOf(cid)) :
                /\ CanOpen(disk', WorkPath(SnapshotsOf(cid)[k].filename))
                /\ ReadFile(disk', WorkPath(SnapshotsOf(cid)[k].filename))
                      = SnapshotsOf(cid)[k].content]_vars

\* C10: Checkout(id) of an existing commit writes only the working-directory
\* files named by the commit's snapshots and leaves every other file as it
\* was; Checkout of an unknown id writes no file; either way the commit list,
\* the id counter, the staging list, the catalog and the tree are unchanged.
C10_CheckoutAdditive ==
    [][\A cid \in CommitIds :
          checkout_commit(cid) =>
             /\ UNCHANGED <<repo, index_head, g_documents, root, total_suggestions,
                            created>>
             /\ DOMAIN disk' = DOMAIN disk \cup CheckoutTargets(cid)
             /\ \A q \in DOMAIN disk \ CheckoutTargets(cid) : disk'[q] = disk[q]
             /\ FindCommit(repo.head, cid, 1) = 0 =>
                   (disk' = disk /\ out' = "Commit not found.")]_vars

\* a checkout wrote .mgit_work/a next to the file .mgit_work/b, which no
\* snapshot of any commit names and which still holds its text
C10_Witness ==
    /\ out = "Files written."
    /\ CanOpen(disk, WorkPath(<<"a">>))
    /\ CanOpen(disk, WorkPath(NameB))
    /\ ReadFile(disk, WorkPath(NameB)) = Text1
    /\ \A i \in 1..Len(repo.head) : \A k \in 1..Len(repo.head[i].files) :
          repo.head[i].files[k].filename # NameB

SaveStep == \E m \in Messages : save_commit(m)

\* C11: SaveFromWorkingDirectory neither reads nor changes the staging list:
\* it creates its commit whatever the list holds (also when it is empty), the
\* list is the same after it, and the next CommitStaged snapshots exactly the
\* entries of the list, head first.
C11_SaveIgnoresStaging ==
    /\ [][SaveStep =>
             /\ index_head' = index_head
             /\ out' = "Created commit."
             /\ Tail(repo'.head) = repo.head
             /\ repo'.head[1].commit_id = repo.commit_count + 1]_vars
    /\ [][(CommitStagedStep /\ index_head # <<>>) =>
             /\ Len(repo'.head[1].files) = Len(index_head)
             /\ \A k \in 1..Len(index_head) :
                   repo'.head[1].files[k].filename = Basename(index_head[k])]_vars

\* a Save has just created a commit while two entries were staged, and they
\* are still staged
C11_Witness ==
    /\ out = "Created commit."
    /\ Len(index_head) = 2
    /\ repo.head # <<>>

\* the names save_commit takes from the working directory
Visible(fs) == {d \in DirEntries(fs) : Head(d) # "."}

LoggedIds(head) == {LogLines(head)[k][1] : k \in 1..Len(head)}

\* the commit list without the commits of this id
Without(head, cid) == SelectSeq(head, LAMBDA c : c.commit_id # cid)

\* C13: Delete(id) of an existing commit takes that commit and no other out
\* of the list (Log no longer lists id, the others keep their order and their
\* content) and leaves the id counter as it is, so the next commit gets
\* counter + 1; View and Checkout of an id not in the list report "not found"
\* and write nothing; Delete of an unknown id changes nothing.
C13_DeleteRemovesOne ==
    /\ [][\A cid \in CommitIds :
             delete_commit(cid) =>
                /\ repo'.commit_count = repo.commit_count
                /\ UNCHANGED <<index_head, disk, created>>
                /\ IF cid \in HeadIds
                   THEN /\ repo'.head = Without(repo.head, cid)
                        /\ Len(repo'.head) = Len(repo.head) - 1
                        /\ cid \notin LoggedIds(repo'.head)
                        /\ out' = "Commit deleted."
                   ELSE /\ repo' = repo
                        /\ out' = "Commit not found."]_vars
    /\ [][\A cid \in CommitIds :
             ((view_commit(cid) \/ checkout_commit(cid)) /\ cid \notin HeadIds) =>
                (out' = "Commit not found." /\ disk' = disk /\ repo' = repo)]_vars
    /\ [][\A k \in (Len(created) + 1)..Len(created') :
             created'[k] = repo.commit_count + 1]_vars

\* commit 1 was deleted, commit 2 was created after it with the next id, and
\* a command that named an id no longer in the list was answered "not found"
C13_Witness ==
    /\ created = <<1, 2>>
    /\ HeadIds = {2}
    /\ repo.commit_count = 2
    /\ out = "Commit not found."


\* the message document of commit cid is in the catalog and scores for the
\* word w; w is suggested for its first letter
Discoverable(docs, t, cid, msg, w) ==
    /\ \E d \in 1..Len(docs) :
          /\ docs[d].title = CommitTitle(cid)
          /\ docs[d].url = "commit-msg"
          /\ docs[d].description = msg
          /\ RawScores(docs, w)[d] > 0
    /\ \E res \in get_autocomplete_suggestions(t, <<Head(w)>>, Cardinality(DOMAIN t)) :
          \E k \in 1..Len(res) : res[k].suggestion = w

\* C14: Delete changes neither the catalog nor the autocomplete tree: every
\* search term scores every document as before, every prefix gets the same
\* suggestions as before, and the message document and the message words of
\* the deleted commit are still found.
C14_DeleteKeepsIndexes ==
    [][\A cid \in CommitIds :
          delete_commit(cid) =>
             /\ UNCHANGED <<g_documents, root, total_suggestions>>
             /\ cid \in HeadIds =>
                   LET msg == repo.head[FindCommit(repo.head, cid, 1)].message
                   IN  /\ \A q \in SearchTerms :
                             RawScores(g_documents', q) = RawScores(g_documents, q)
                       /\ \A p \in Prefixes : \A max \in {1, MaxSuggest} :
                             get_autocomplete_suggestions(root', p, max)
                                = get_autocomplete_suggestions(root, p, max)
                       /\ \A k \in 1..Len(MessageWords(msg)) :
                             Discoverable(g_documents', root', cid, msg,
                                          MessageWords(msg)[k])]_vars

\* commit 1 has just been deleted; its message document is in the catalog
\* and the message word "t" is a terminal of the tree
C14_Witness ==
    /\ out = "Commit deleted."
    /\ 1 \notin HeadIds
    /\ \E d \in 1..Len(g_documents) : g_documents[d].title = CommitTitle(1)
    /\ <<"t">> \in DOMAIN root
    /\ root[<<"t">>].is_end_of_word


\* C15: a commit of the list keeps its id, message, snapshot count and
\* snapshots over every step (Stage, CommitStaged, Save, Checkout, View, Log,
\* Delete of another commit, an edit of the source file), and leaves the list
\* only by a Delete of its id.
C15_CommitsImmutable ==
    [][\A i \in 1..Len(repo.head) :
          /\ \A j \in 1..Len(repo'.head) :
                repo'.head[j].commit_id = repo.head[i].commit_id =>
                   repo'.head[j] = repo.head[i]
          /\ \/ \E j \in 1..Len(repo'.head) : repo'.head[j] = repo.head[i]
             \/ delete_commit(repo.head[i].commit_id)]_vars

\* commit 1 still holds the text the source file had when it was committed,
\* while the file was edited, commit 2 was made of the new text under another
\* message, and a commit was checked out
C15_Witness ==
    /\ Len(repo.head) = 2
    /\ repo.head[2].files = <<[filename |-> NameA, content |-> Text1]>>
    /\ repo.head[1].files = <<[filename |-> NameA, content |-> Text2]>>
    /\ repo.head[2].message # repo.head[1].message
    /\ ReadFile(disk, PathXA) = Text2
    /\ out = "Files written."


\* the position in created of the latest commit whose id is in the list
LatestListed ==
    CHOOSE k \in 1..Len(created) :
        /\ created[k] \in HeadIds
        /\ \A l \in (k + 1)..Len(created) : created[l] \notin HeadIds

\* C16: in every state the commit list, read from the head as Log prints it,
\* has strictly decreasing (hence pairwise distinct) ids, and its head is the
\* most recently created commit still in the list; a new commit is linked in
\* front of the list.
C16_NewestFirst ==
    /\ [](\A i, j \in 1..Len(repo.head) :
             i < j => LogLines(repo.head)[i][1] > LogLines(repo.head)[j][1])
    /\ [](repo.head # <<>> => repo.head[1].commit_id = created[LatestListed])
    /\ [][\A k \in (Len(created) + 1)..Len(created') :
             /\ repo'.head[1].commit_id = created'[k]
             /\ Tail(repo'.head) = repo.head]_vars

\* two commits are listed, the second one created in front of the first
C16_Witness ==
    /\ Len(repo.head) = 2
    /\ repo.head[1].commit_id = 2
    /\ repo.head[2].commit_id = 1
    /\ created = <<1, 2>>
    /\ out \in {"Commit created.", "Created commit."}


\* C17: CommitStaged stores, for every staged entry that can be read, the
\* basename of the path and the content the file has on disk when the commit
\* is made, also when the file was modified after it was staged.
C17_SnapshotAtCommitTime ==
    [][(CommitStagedStepAny /\ index_head # <<>>) =>
          /\ Len(repo'.head[1].files) = Len(index_head)
          /\ \A k \in 1..Len(index_head) :
                /\ repo'.head[1].files[k].filename = Basename(index_head[k])
                /\ CanOpen(disk, index_head[k]) =>
                      repo'.head[1].files[k].content = ReadFile(disk, index_head[k])]_vars

\* the source file was staged with its first text (the text of its catalog
\* document), then edited, and the first commit holds the edited text
C17_Witness ==
    /\ out = "Commit created."
    /\ created = <<1>>
    /\ repo.head[1].files = <<[filename |-> NameA, content |-> Text2]>>
    /\ g_documents[1].title = FullPath(PathXA)
    /\ g_documents[1].description = Text1


\* the terminal nodes below the node of prefix p (that node included)
TerminalsBelow(t, p) == {k \in DOMAIN t : IsPrefix(p, k) /\ t[k].is_end_of_word}

\* C18: for every stored suggestion S and every non-empty prefix P of its
\* normalized form, Suggest(P, max) includes S whenever max is at least the
\* number of terminals below P (S among them) that score as much as S or more.
C18_PrefixContainment ==
    [][\A query \in TrieQueries : \A max \in 0..MaxSuggest :
          handle_suggest(query, max) =>
             \A k \in TerminalsBelow(root, query) :
                (/\ query # <<>>
                 /\ max >= Cardinality({d \in TerminalsBelow(root, query) :
                                           root[d].score >= root[k].score}))
                => \E i \in 1..Len(suggestions') :
                      suggestions'[i].suggestion = root[k].suggestion]_vars

\* C19: the array Suggest returns is ordered by non-increasing score,
\* whatever the tree, the query and max.
C19_SuggestSorted ==
    \A i, j \in 1..Len(suggestions) :
        i < j => suggestions[i].score >= suggestions[j].score

\* "cat" was inserted with 0.9 and "car" with its default 0.5; the traversal
\* meets "car" first and the array returned lists "cat" first
C19_Witness ==
    /\ Len(suggestions) = 2
    /\ suggestions[1].suggestion = <<"c", "a", "t">>
    /\ suggestions[1].score = 9
    /\ suggestions[2].suggestion = <<"c", "a", "r">>
    /\ suggestions[2].score = 5

\* C20: Insert of a non-empty text makes its node terminal with the text as
\* given and with the caller's score when that is positive, else with the
\* default of the source (0.6 for document titles, 0.5 otherwise); Insert of
\* the empty text returns -1 and leaves the tree and its counter unchanged.
C20_InsertScore ==
    [][\A text \in TrieTexts, score \in TrieScores, source \in TrieSources :
          AddSuggestion(text, score, source) =>
             IF text = <<>>
             THEN out' = "-1" /\ UNCHANGED <<root, total_suggestions>>
             ELSE /\ out' # "-1"
                  /\ total_suggestions' = total_suggestions + 1
                  /\ root'[TrieKey(text)].is_end_of_word
                  /\ root'[TrieKey(text)].suggestion = text
                  /\ root'[TrieKey(text)].score =
                        IF score > 0 THEN score
                        ELSE IF source = AC_SOURCE_DOCUMENT_TITLES
                             THEN SCORE_DEFAULT_TITLES ELSE SCORE_DEFAULT_OTHER]_vars

\* one text holds the default of the title source, one the default of the
\* other sources, one the score its caller gave, and an Insert of the empty
\* text has just failed
C20_Witness ==
    /\ out = "-1"
    /\ \E k1, k2, k3 \in DOMAIN root :
          /\ root[k1].is_end_of_word /\ root[k1].score = SCORE_DEFAULT_TITLES
          /\ root[k2].is_end_of_word /\ root[k2].score = SCORE_DEFAULT_OTHER
          /\ root[k3].is_end_of_word /\ root[k3].score = 9

\* C21: last write wins per normalized key. A terminal node holds one text,
\* whose normalized form spells the node's path, and a non-terminal node
\* holds none; an Insert leaves at the node its text spells exactly that
\* literal text with the final score and one more in the frequency, creates
\* no other terminal and changes no other node; Suggest returns at most one
\* entry per node, the text the node holds now.
C21_LastWriteWins ==
    /\ [](\A p \in DOMAIN root :
            IF root[p].is_end_of_word
            THEN TrieKey(root[p].suggestion) = p /\ root[p].frequency >= 1
            ELSE root[p].suggestion = NULL /\ root[p].frequency = 0)
    /\ [][\A text \in KeyTexts, score \in KeyScores :
            AddSuggestion(text, score, AC_SOURCE_DOCUMENT_TITLES) =>
               LET k == TrieKey(text)
               IN  /\ root'[k].is_end_of_word
                   /\ root'[k].suggestion = text
                   /\ root'[k].score = IF score > 0 THEN score ELSE SCORE_DEFAULT_TITLES
                   /\ root'[k].frequency =
                         (IF k \in DOMAIN root THEN root[k].frequency ELSE 0) + 1
                   /\ \A p \in DOMAIN root \ {k} : root'[p] = root[p]
                   /\ \A p \in DOMAIN root' \ (DOMAIN root \cup {k}) :
                         root'[p] = EmptyNode]_vars
    /\ [][\A query \in KeyQueries, max \in 1..MaxSuggest :
            handle_suggest(query, max) =>
               /\ \A i, j \in 1..Len(suggestions') :
                     TrieKey(suggestions'[i].suggestion)
                        = TrieKey(suggestions'[j].suggestion) => i = j
               /\ \A i \in 1..Len(suggestions') :
                     LET k == TrieKey(suggestions'[i].suggestion)
                     IN  /\ k \in DOMAIN root
                         /\ root[k].suggestion = suggestions'[i].suggestion
                         /\ root[k].score = suggestions'[i].score]_vars

\* "C_a" was inserted and returned by a Suggest; then "ca" was inserted with
\* 0.9 into the same node, which now holds "ca" alone, twice inserted
C21_Witness ==
    /\ Len(suggestions) = 1
    /\ suggestions[1].suggestion = <<"C", "_", "a">>
    /\ <<"c", "a">> \in DOMAIN root
    /\ root[<<"c", "a">>].suggestion = <<"c", "a">>
    /\ root[<<"c", "a">>].score = 9
    /\ root[<<"c", "a">>].frequency = 2

\* C22: Suggest lowercases the query and nothing more, and returns no entry
\* as soon as one character of the query has no edge: a query holding a
\* character that is neither a letter nor a digit returns nothing, and so
\* does a query whose lowercased form is no path of the tree, however much
\* of it is one.
C22_SuggestLowercasesOnly ==
    [][\A query \in KeyQueries, max \in 1..MaxSuggest :
          handle_suggest(query, max) =>
             /\ (\E i \in 1..Len(query) : ~isalnum(query[i])) => suggestions' = <<>>
             /\ MapLower(query) \notin DOMAIN root => suggestions' = <<>>
             /\ (MapLower(query) \in DOMAIN root /\ total_suggestions > 0)
                   => suggestions' # <<>>]_vars

\* the tree holds "C_a" under the path "ca" and the last Suggest, for "C_"
\* or for "cb", returned nothing
C22_Witness ==
    /\ out = "No suggestions found."
    /\ suggestions = <<>>
    /\ <<"c", "a">> \in DOMAIN root
    /\ root[<<"c", "a">>].suggestion = <<"C", "_", "a">>

-----------------------------------------------------------------------------
(* Query *)

\* the occurrences of term in text from position i on, counted from the
\* left without overlap
RECURSIVE OccurrencesFrom(_, _, _)
OccurrencesFrom(text, term, i) ==
    IF term = <<>> \/ i + Len(term) - 1 > Len(text) THEN 0
    ELSE IF SubSeq(text, i, i + Len(term) - 1) = term
         THEN 1 + OccurrencesFrom(text, term, i + Len(term))
         ELSE OccurrencesFrom(text, term, i + 1)

Hits(doc, token) ==
    3 * OccurrencesFrom(MapLower(doc.title), token, 1)
      + OccurrencesFrom(MapLower(doc.description), token, 1)

RECURSIVE HitsOfAll(_, _, _)
HitsOfAll(doc, tokens, n) ==
    IF n = 0 THEN 0 ELSE Hits(doc, tokens[n]) + HitsOfAll(doc, tokens, n - 1)

\* the raw score times the number of tokens, with a given count of tokens
\* matched
WeightedRaw(doc, tokens, matched) ==
    IF Len(tokens) > 1
    THEN HitsOfAll(doc, tokens, Len(tokens)) * (Len(tokens) + matched)
    ELSE HitsOfAll(doc, tokens, Len(tokens)) * Len(tokens)

\* the different tokens found in the document
MatchedDistinct(doc, tokens) ==
    Cardinality({tokens[k] : k \in {n \in 1..Len(tokens) : Hits(doc, tokens[n]) > 0}})

\* the tokens of the query found in the document, a token that the query
\* repeats counted at each place
MatchedEach(doc, tokens) ==
    Cardinality({n \in 1..Len(tokens) : Hits(doc, tokens[n]) > 0})

\* the result r is the document d of the catalog, whatever its relevance
SameDocument(r, d) == [r EXCEPT !.relevance_score = d.relevance_score] = d

\* a call of Query that gets as far as scoring the documents
Answered(term, max) ==
    g_total_queries' # g_total_queries /\ max > 0 /\ handle_search(term, max)

\* C23 as stated: the raw score of a document is the sum over the query
\* tokens of 3 * title occurrences + body occurrences, multiplied, when the
\* query has more than one token, by 1 + matched / token_count with matched
\* the number of distinct tokens found; the relevance returned is that score
\* over the largest one.
C23_RawScoreDistinct ==
    [][\A term \in RankQueries, max \in {1, MaxResults} :
          Answered(term, max) =>
             LET tokens == QueryTokens(term)
                 raw == [i \in 1..Len(g_documents) |->
                           WeightedRaw(g_documents[i], tokens,
                                       MatchedDistinct(g_documents[i], tokens))]
             IN  \A k \in 1..Len(results') :
                    \E i \in 1..Len(g_documents) :
                       /\ SameDocument(results'[k], g_documents[i])
                       /\ results'[k].relevance_score = Relevance(raw[i], max_raw(raw))]_vars

\* C23, amended: the same with matched the number of query tokens found, a
\* token occurring twice in the query counted twice.
C23_RawScore ==
    [][\A term \in RankQueries, max \in {1, MaxResults} :
          Answered(term, max) =>
             LET tokens == QueryTokens(term)
                 raw == [i \in 1..Len(g_documents) |->
                           WeightedRaw(g_documents[i], tokens,
                                       MatchedEach(g_documents[i], tokens))]
             IN  /\ raw = RawScores(g_documents, term)
                 /\ \A k \in 1..Len(results') :
                       \E i \in 1..Len(g_documents) :
                          /\ SameDocument(results'[k], g_documents[i])
                          /\ results'[k].relevance_score = Relevance(raw[i], max_raw(raw))]_vars

\* Query("c C ab", 2) on the two files and the commit: the commit scores
\* 7 * (1 + 3/3) = 14 and y/a, which holds "c" and not "ab", scores
\* 2 * (1 + 2/3) = 10/3, a relevance of 5/21
C23_Witness ==
    /\ Len(g_documents) = 3
    /\ Len(results) = 2
    /\ results[1].relevance_score = <<1, 1>>
    /\ results[1].title = CommitTitle(1)
    /\ results[2].relevance_score = <<5, 21>>

\* the document has an occurrence of some token of the query
Matches(doc, term) ==
    \E n \in 1..Len(QueryTokens(term)) : Hits(doc, QueryTokens(term)[n]) > 0

\* C24: every relevance returned lies in [0, 1]; when some document of the
\* catalog matches a token, the first result has relevance exactly 1, and a
\* result whose document matches no token has relevance 0.
C24_RelevanceNormalized ==
    [][\A term \in RankQueries, max \in {1, MaxResults} :
          Answered(term, max) =>
             /\ \A k \in 1..Len(results') :
                   /\ 0 <= results'[k].relevance_score[1]
                   /\ results'[k].relevance_score[1] <= results'[k].relevance_score[2]
             /\ (\E i \in 1..Len(g_documents) : Matches(g_documents[i], term))
                   => results'[1].relevance_score = <<1, 1>>
             /\ \A k \in 1..Len(results') :
                   (\E i \in 1..Len(g_documents) :
                       /\ SameDocument(results'[k], g_documents[i])
                       /\ ~Matches(g_documents[i], term))
                   => results'[k].relevance_score = <<0, 1>>]_vars

\* Query("c", 2) on the files x/a ("ab") and y/a ("c A_b"): y/a first with
\* relevance 1, x/a with relevance 0
C24_Witness ==
    /\ Len(g_documents) = 2
    /\ Len(results) = 2
    /\ results[1].title = FullPath(PathYA) /\ results[1].relevance_score = <<1, 1>>
    /\ results[2].title = FullPath(PathXA) /\ results[2].relevance_score = <<0, 1>>

\* the place of a result's document in the catalog
CatalogIndex(r) == CHOOSE i \in 1..Len(g_documents) : SameDocument(r, g_documents[i])

\* C25: the results are in order of non-increasing relevance, and results of
\* equal relevance are in the order in which their documents entered the
\* catalog.
C25_SortedTiesInOrder ==
    \A i, j \in 1..Len(results) :
        i < j =>
           /\ ~Less(results[i].relevance_score, results[j].relevance_score)
           /\ results[i].relevance_score = results[j].relevance_score
                 => CatalogIndex(results[i]) < CatalogIndex(results[j])

\* C26: every call of Query adds exactly one to the count of queries,
\* whatever the catalog holds and however many results it returns.
C26_EveryQueryCounted ==
    [][\A term \in RankQueries, max \in {1, MaxResults} :
          handle_search(term, max) => g_total_queries' = g_total_queries + 1]_vars

C28_QueryKeepsCatalog ==
    [][\A term \in RankQueries, max \in {1, MaxResults} :
          handle_search(term, max) =>
             /\ g_documents' = g_documents
             /\ UNCHANGED <<repo, index_head, root, total_suggestions, disk, workdir,
                            crashed, created>>]_vars

\* a Query has returned the commit with relevance 1 and the three documents
\* of the catalog still hold the relevance 0 they were stored with
C28_Witness ==
    /\ Len(g_documents) = 3
    /\ \A i \in 1..3 : g_documents[i].relevance_score = 0
    /\ g_total_queries > 0
    /\ Len(results) = 1
    /\ results[1].title = CommitTitle(1)
    /\ results[1].relevance_score = <<1, 1>>

\* C30: on a catalog that is not empty Query returns exactly
\* min(catalog size, max_results) documents of the catalog, each once, those
\* of relevance 0 among them; when no document matches a token, or the query
\* has no token, every one of them has relevance 0.
C30_EveryDocumentIsCandidate ==
    [][\A term \in RankQueries, max \in {1, MaxResults} :
          (g_documents # <<>> /\ handle_search(term, max)) =>
             /\ Len(results') = IF Len(g_documents) < max THEN Len(g_documents) ELSE max
             /\ \A k \in 1..Len(results') :
                   \E i \in 1..Len(g_documents) : SameDocument(results'[k], g_documents[i])
             /\ \A k, l \in 1..Len(results') :
                   SameDocument(results'[k], results'[l]) => k = l
             /\ (\A i \in 1..Len(g_documents) : ~Matches(g_documents[i], term))
                   => \A k \in 1..Len(results') : results'[k].relevance_score = <<0, 1>>]_vars

\* a query without a token on the three documents, for at most two: two
\* results, both of relevance 0
C30_Witness ==
    /\ Len(g_documents) = 3
    /\ Len(results) = 2
    /\ results[1].relevance_score = <<0, 1>>
    /\ results[2].relevance_score = <<0, 1>>

\* what a read operation must leave alone
Stored == <<repo, index_head, g_documents, root, total_suggestions, disk, workdir,
            created, g_total_queries>>

\* C29: Suggest on an empty tree returns nothing for every query, the empty
\* one included; Query on an empty catalog returns no result; Log on a
\* repository without a commit lists none. None of the three fails and none
\* changes what is stored.
C29_EmptyStateReads ==
    /\ [][\A query \in FreshQueries :
            (root = EmptyTrie /\ handle_suggest(query, MaxSuggest)) =>
               /\ suggestions' = <<>>
               /\ out' = "No suggestions found."
               /\ ~crashed'
               /\ UNCHANGED Stored]_vars
    /\ [][\A term \in FreshTerms :
            (g_documents = <<>> /\ handle_search(term, MaxResults)) =>
               /\ results' = <<>>
               /\ out' = "No results found."
               /\ ~crashed'
               /\ UNCHANGED Stored]_vars
    /\ [][(repo.head = <<>> /\ view_log) =>
               /\ LogLines(repo.head) = <<>>
               /\ out' = "No commits yet."
               /\ ~crashed'
               /\ UNCHANGED Stored]_vars

\* nothing is stored yet; a Query was answered with no result and left the
\* count of queries at 0, and the Log that followed found no commit
C29_Witness ==
    /\ root = EmptyTrie /\ g_documents = <<>> /\ repo.head = <<>>
    /\ \E e \in answered : e.catalog = <<>> /\ e.results = <<>>
    /\ results = <<>>
    /\ suggestions = <<>>
    /\ g_total_queries = 0
    /\ out = "No commits yet."

-----------------------------------------------------------------------------
(* Suggest: the cut to max *)

CharRank(c) == CHOOSE i \in 1..Len(CharOrder) : CharOrder[i] = c

\* the node at path a is met before the node at path b by a traversal that
\* visits a node before its children and the children by ascending code
PathBefore(a, b) ==
    /\ a # b
    /\ \/ IsPrefix(a, b)
       \/ \E n \in 1..Len(a) :
             /\ n <= Len(b)
             /\ SubSeq(a, 1, n - 1) = SubSeq(b, 1, n - 1)
             /\ CharRank(a[n]) < CharRank(b[n])

\* the terminals below p that fewer than max terminals below p precede
FirstTerminals(t, p, max) ==
    {k \in TerminalsBelow(t, p) :
        Cardinality({d \in TerminalsBelow(t, p) : PathBefore(d, k)}) < max}

\* C31: Suggest returns at most max entries, and they are the texts of the
\* first max terminals below the prefix in pre-order (node before children,
\* children by ascending character code), whatever their scores.
C31_SuggestCutsInPreOrder ==
    [][\A query \in KeyQueries : \A max \in 1..MaxSuggest :
          handle_suggest(query, max) =>
             /\ Len(suggestions') <= max
             /\ Len(suggestions')
                   = Cardinality(FirstTerminals(root, MapLower(query), max))
             /\ {suggestions'[i].suggestion : i \in 1..Len(suggestions')}
                   = {root[k].suggestion :
                         k \in FirstTerminals(root, MapLower(query), max)}]_vars

\* the node "ca" and the node "cab" are terminal, "cab" with the higher
\* score, and the Suggest just answered returned the text of "ca" alone
C31_Witness ==
    /\ out = "Autocomplete suggestions."
    /\ Len(suggestions) = 1
    /\ <<"c", "a">> \in DOMAIN root /\ <<"c", "a", "b">> \in DOMAIN root
    /\ suggestions[1].suggestion = root[<<"c", "a">>].suggestion
    /\ suggestions[1].score = root[<<"c", "a">>].score
    /\ root[<<"c", "a", "b">>].is_end_of_word
    /\ root[<<"c", "a", "b">>].score > suggestions[1].score

\* C32: Insert of a non-empty text without a letter or digit creates no edge
\* and makes the root terminal with that text; while the root is terminal,
\* Suggest with the empty query returns its text and Suggest with any other
\* query does not.
C32_RootTerminal ==
    /\ [][\A text \in RootTexts, score \in KeyScores :
            (TrieKey(text) = <<>> /\ AddSuggestion(text, score, AC_SOURCE_DOCUMENT_TITLES))
               => /\ DOMAIN root' = DOMAIN root
                  /\ root'[<<>>].is_end_of_word
                  /\ root'[<<>>].suggestion = text
                  /\ \A p \in DOMAIN root \ {<<>>} : root'[p] = root[p]]_vars
    /\ [][\A query \in RootQueries, max \in 1..MaxSuggest :
            (root[<<>>].is_end_of_word /\ handle_suggest(query, max))
               => (query = <<>>
                     <=> \E i \in 1..Len(suggestions') :
                            suggestions'[i].suggestion = root[<<>>].suggestion)]_vars

\* "_" sits at the root next to a terminal below it, and the Suggest just
\* answered, which can only be the one with the empty query, returned "_"
C32_Witness ==
    /\ out = "Autocomplete suggestions."
    /\ root[<<>>].is_end_of_word
    /\ root[<<>>].suggestion = <<"_">>
    /\ <<"a">> \in DOMAIN root
    /\ \E i \in 1..Len(suggestions) : suggestions[i].suggestion = <<"_">>

-----------------------------------------------------------------------------
(* init after commits *)

\* C33: init empties the commit list and sets the id counter to 0 and
\* leaves the staging list, the catalog and the autocomplete tree as they
\* are: the message document and the message words of every discarded
\* commit are still found by Query and Suggest, and the CommitStaged that
\* follows snapshots the files that were staged before the init.
C33_InitKeepsStagingAndIndexes ==
    /\ [][init_repository =>
             /\ repo'.head = <<>> /\ repo'.commit_count = 0
             /\ UNCHANGED <<index_head, g_documents, root, total_suggestions>>
             /\ \A c \in 1..Len(repo.head) :
                   \A k \in 1..Len(MessageWords(repo.head[c].message)) :
                      Discoverable(g_documents', root', repo.head[c].commit_id,
                                   repo.head[c].message,
                                   MessageWords(repo.head[c].message)[k])]_vars
    /\ [][(/\ out = "Repository has been initialized."
           /\ created # <<>>
           /\ index_head # <<>>
           /\ CommitStagedStep) =>
             /\ out' = "Commit created."
             /\ Len(repo'.head) = 1
             /\ repo'.head[1].commit_id = 1
             /\ Len(repo'.head[1].files) = Len(index_head)
             /\ \A f \in 1..Len(index_head) :
                   repo'.head[1].files[f].filename = Basename(index_head[f])
             /\ index_head' = <<>>]_vars

\* init has just run after commit 1 was created: the list is empty, the
\* counter is 0, a file is still staged, the catalog still holds the
\* document of commit 1 and the tree its word "t"
C33_Witness ==
    /\ out = "Repository has been initialized."
    /\ created # <<>>
    /\ repo.head = <<>> /\ repo.commit_count = 0
    /\ index_head # <<>>
    /\ \E d \in 1..Len(g_documents) : g_documents[d].title = CommitTitle(1)
    /\ <<"t">> \in DOMAIN root
    /\ root[<<"t">>].is_end_of_word

-----------------------------------------------------------------------------
(* What reaches the catalog *)

\* a step of CommitStaged or of Save that creates a commit
CommitCreated == (CommitStagedStep \/ SaveStep) /\ created' # created

\* C34: a successful Stage appends exactly one local-file document, titled
\* with the path staged; a CommitStaged or Save that creates a commit
\* appends exactly one commit-msg document and no other; and Save inserts
\* the words of every file it snapshots into the autocomplete tree.
C34_CatalogGrowsByOne ==
    /\ [][\A f \in {PathXA, WorkPath(NameB)} :
            (add_file(f) /\ out' = "File added.") =>
               /\ Len(g_documents') = Len(g_documents) + 1
               /\ SubSeq(g_documents', 1, Len(g_documents)) = g_documents
               /\ g_documents'[Len(g_documents')].url = "local-file"
               /\ g_documents'[Len(g_documents')].title = FullPath(f)]_vars
    /\ [][CommitCreated =>
               /\ Len(g_documents') = Len(g_documents) + 1
               /\ SubSeq(g_documents', 1, Len(g_documents)) = g_documents
               /\ g_documents'[Len(g_documents')].url = "commit-msg"
               /\ g_documents'[Len(g_documents')].title = CommitTitle(repo'.commit_count)]_vars
    /\ [][(SaveStep /\ created' # created) =>
               \A f \in 1..Len(repo'.head[1].files) :
                  LET words == FileWords(repo'.head[1].files[f].content, <<>>)
                  IN  \A w \in 1..Len(words) :
                         /\ TrieKey(words[w]) \in DOMAIN root'
                         /\ root'[TrieKey(words[w])].is_end_of_word]_vars

\* the newest commit was saved from the working directory and holds a file
\* with the text "d", typed there and never staged: "d" is a terminal of
\* the tree and no document of the catalog has a hit for it
C34_Witness ==
    /\ out = "Created commit."
    /\ \E f \in 1..Len(repo.head[1].files) : repo.head[1].files[f].content = Text3
    /\ Text3 \in DOMAIN root /\ root[Text3].is_end_of_word
    /\ \A i \in 1..Len(g_documents) : RawScores(g_documents, Text3)[i] = 0
    /\ g_documents[Len(g_documents)].url = "commit-msg"

-----------------------------------------------------------------------------
(* Order of the snapshots *)

\* the last snapshot of the sequence with this name
LastNamed(files, name) ==
    files[Max({k \in 1..Len(files) : files[k].filename = name})]

\* C35: Stage pushes at the head of the staging list; CommitStaged stores
\* one snapshot per entry from the head on, so in the reverse of the order
\* of staging; Checkout writes the snapshots in stored order, so a working
\* file named by two snapshots ends with the content of the later one in
\* the commit, which is the file staged first.
C35_SnapshotsNewestFirst ==
    /\ [][\A f \in {PathXA, PathYA} :
            (add_file(f) /\ out' = "File added.")
               => index_head' = <<FullPath(f)>> \o index_head]_vars
    /\ [][(CommitStagedStep /\ index_head # <<>>) =>
             /\ Len(repo'.head[1].files) = Len(index_head)
             /\ \A i \in 1..Len(index_head) :
                   /\ repo'.head[1].files[i].filename = Basename(index_head[i])
                   /\ CanOpen(disk, index_head[i])
                         => repo'.head[1].files[i].content = ReadFile(disk, index_head[i])]_vars
    /\ [][\A cid \in CommitIds :
            (checkout_commit(cid) /\ FindCommit(repo.head, cid, 1) # 0) =>
               \A k \in 1..Len(SnapshotsOf(cid)) :
                  ReadFile(disk', WorkPath(SnapshotsOf(cid)[k].filename))
                     = LastNamed(SnapshotsOf(cid), SnapshotsOf(cid)[k].filename).content]_vars

\* x/a was staged, then y/a; the commit holds the text of y/a first and the
\* text of x/a second, both named "a", and the checkout left the text of
\* x/a in the working directory
C35_Witness ==
    /\ out = "Files written."
    /\ \E c \in 1..Len(repo.head) :
          /\ Len(repo.head[c].files) = 2
          /\ repo.head[c].files[1].filename = NameA
          /\ repo.head[c].files[2].filename = NameA
          /\ repo.head[c].files[1].content = Text2
          /\ repo.head[c].files[2].content = Text1
    /\ Len(repo.head) = 1
    /\ ReadFile(disk, PathXA) = Text1 /\ ReadFile(disk, PathYA) = Text2
    /\ ReadFile(disk, WorkPath(NameA)) = Text1

-----------------------------------------------------------------------------
(* The store at a full catalog *)

\* the step created one commit at the head of the list, with the next id
CommitStored ==
    /\ ~crashed'
    /\ repo'.commit_count = repo.commit_count + 1
    /\ Len(repo'.head) = Len(repo.head) + 1
    /\ repo'.head[1].commit_id = repo.commit_count + 1
    /\ SubSeq(repo'.head, 2, Len(repo'.head)) = repo.head

\* C36: with MAX_DOCUMENTS documents in the catalog, a successful Stage
\* still pushes its entry and inserts the words of the file; CommitStaged
\* (of a non-empty list that fits a commit) and Save still create their
\* commit with the next id, CommitStaged empties the staging list and Save
\* leaves it; the catalog alone stays as it was.
C36_FullCatalogKeepsStore ==
    /\ [][(Len(g_documents) >= MAX_DOCUMENTS /\ add_file(PathYA)
                /\ CanOpen(disk, FullPath(PathYA))) =>
             /\ StagePushes(PathYA)
             /\ StageInsertsWords(PathYA)
             /\ out' = "File added."
             /\ g_documents' = g_documents]_vars
    /\ [][(Len(g_documents) >= MAX_DOCUMENTS /\ CommitStagedStep
                /\ index_head # <<>> /\ Len(index_head) <= MAX_FILES_PER_COMMIT) =>
             /\ CommitStored
             /\ Len(repo'.head[1].files) = Len(index_head)
             /\ index_head' = <<>>
             /\ out' = "Commit created."
             /\ g_documents' = g_documents]_vars
    /\ [][(Len(g_documents) >= MAX_DOCUMENTS /\ SaveStep) =>
             /\ CommitStored
             /\ index_head' = index_head
             /\ out' = "Created commit."
             /\ g_documents' = g_documents]_vars

\* the catalog was full when a file was staged, when the staged commit 2
\* and then the saved commit 3 were created: the catalog still ends with a
\* file, commit 2 holds the staged files, commit 3 the file checked out
C36_Witness ==
    /\ Len(g_documents) = MAX_DOCUMENTS
    /\ g_documents[MAX_DOCUMENTS].url = "local-file"
    /\ out = "Created commit."
    /\ created = <<1, 2, 3>>
    /\ Len(repo.head) = 3
    /\ repo.head[1].commit_id = 3
    /\ Len(repo.head[1].files) = 1
    /\ repo.head[2].commit_id = 2
    /\ Len(repo.head[2].files) = MAX_FILES_PER_COMMIT
    /\ index_head = <<>>

-----------------------------------------------------------------------------
(* Scores of message words and of file words *)

\* the node of word w is terminal in t and holds this score
ScoredAt(t, w, score) ==
    /\ TrieKey(w) \in DOMAIN t
    /\ t[TrieKey(w)].is_end_of_word
    /\ t[TrieKey(w)].score = score

\* the nodes of the words of a message
MessageKeys(m) == {TrieKey(MessageWords(m)[k]) : k \in 1..Len(MessageWords(m))}

\* after the step every word of the file at path p has the file score,
\* unless its node is one of keys
FileWordsScored(p, keys) ==
    CanOpen(disk, p) =>
        \A k \in 1..Len(FileWords(ReadFile(disk, p), <<>>)) :
            LET w == FileWords(ReadFile(disk, p), <<>>)[k]
            IN  TrieKey(w) \notin keys => ScoredAt(root', w, SCORE_FILE_WORD)

\* C37: when CommitStaged(m) or Save(m) has created its commit, every word
\* of m (the space-separated tokens, lowercased, without their
\* non-alphanumeric characters) is terminal with score 0.7 and is the text
\* of its node, whatever the files of the commit inserted there; the words
\* of those files that are not words of m have score 0.6, and so has every
\* word of a file after its successful Stage.
C37_MessageWordsScore ==
    /\ [][\A m \in TwoMessages :
            ((commit_staged(m) \/ save_commit(m)) /\ created' # created /\ ~crashed') =>
               \A k \in 1..Len(MessageWords(m)) :
                  /\ ScoredAt(root', MessageWords(m)[k], SCORE_COMMIT_WORD)
                  /\ root'[TrieKey(MessageWords(m)[k])].suggestion = MessageWords(m)[k]]_vars
    /\ [][\A m \in TwoMessages :
            (commit_staged(m) /\ created' # created /\ ~crashed') =>
               \A i \in 1..Len(index_head) :
                  FileWordsScored(index_head[i], MessageKeys(m))]_vars
    /\ [][\A m \in TwoMessages :
            (save_commit(m) /\ created' # created /\ ~crashed') =>
               \A d \in {e \in DirEntries(disk) : Head(e) # "."} :
                  FileWordsScored(WorkPath(d), MessageKeys(m))]_vars
    /\ [][\A f \in {PathXA, PathYA} :
            (add_file(f) /\ out' = "File added.") =>
               FileWordsScored(FullPath(f), {})]_vars

\* x/a, whose text is the word "ab", was committed twice with the message
\* "Ab t": the second Stage had set the score of "ab" to 0.6, and after the
\* second commit it is 0.7 again
C37_Witness ==
    /\ out = "Commit created."
    /\ Len(repo.head) = 2
    /\ \A c \in 1..2 :
          /\ repo.head[c].message = <<"A", "b", " ", "t">>
          /\ Len(repo.head[c].files) = 1
          /\ repo.head[c].files[1].content = <<"a", "b">>
    /\ MessageWords(repo.head[1].message) = << <<"a", "b">>, <<"t">> >>
    /\ ScoredAt(root, <<"a", "b">>, SCORE_COMMIT_WORD)
    /\ ScoredAt(root, <<"t">>, SCORE_COMMIT_WORD)

-----------------------------------------------------------------------------
(* The tree only grows *)

\* a command that reads: Suggest, Query, Checkout, View, Log or Delete
ReadingStep ==
    \/ \E query \in Prefixes, max \in {1, MaxSuggest} : handle_suggest(query, max)
    \/ \E term \in SearchTerms : handle_search(term, MaxResults)
    \/ \E cid \in CommitIds :
          checkout_commit(cid) \/ view_commit(cid) \/ delete_commit(cid)
    \/ view_log

\* a command that inserts: Stage, CommitStaged or Save
InsertingStep == StageOnce \/ CommitStagedStep \/ SaveStep

\* Suggest(query, max) on tree t returns at least one entry
ReturnsSome(t, query, max) ==
    \A s \in get_autocomplete_suggestions(t, query, max) : s # <<>>

\* C38: Suggest, Query, Checkout, View, Log and Delete leave every node of
\* the tree as it is; a step that changes the tree is a Stage, a
\* CommitStaged or a Save; every step keeps every node and keeps a terminal
\* node terminal; so a Suggest of a prefix and a max that returns an entry
\* before a step returns an entry after it.
C38_TreeOnlyGrows ==
    /\ [][ReadingStep => (root' = root /\ total_suggestions' = total_suggestions)]_vars
    /\ [][root' # root => InsertingStep]_vars
    /\ [][\A q \in DOMAIN root :
            /\ q \in DOMAIN root'
            /\ root[q].is_end_of_word => root'[q].is_end_of_word]_vars
    /\ [][\A query \in Prefixes, max \in {1, MaxSuggest} :
            ReturnsSome(root, query, max) => ReturnsSome(root', query, max)]_vars

\* Suggest("T", 1) returned the message word "t" while commit 1 was listed;
\* the commit has since been deleted, and the node of "t" is still terminal
C38_Witness ==
    /\ out = "Commit deleted."
    /\ repo.head = <<>>
    /\ created = <<1>>
    /\ Len(suggestions) = 1
    /\ suggestions[1].suggestion = <<"t">>
    /\ root[<<"t">>].is_end_of_word
    /\ ReturnsSome(root, <<"T">>, 1)

=============================================================================
